---- MODULE Spec2Model ----
(***************************************************************************)
(* A model of the imagen / dataviews view, stack, overlay, slicing,        *)
(* channel-composition and renderer code.                                  *)
(*                                                                         *)
(* Sheet coordinates are modelled as integers (they stand for dyadic float *)
(* values, on which the float arithmetic of the code is exact); densities  *)
(* and matrix coordinates are exact fractions <<numerator, denominator>>.  *)
(*                                                                         *)
(* The module holds several specifications over the same variables, one    *)
(* per component: SpecSlice (SheetView construction and indexing),         *)
(* SpecOverlay, SpecStack, SpecHCS and Spec (the renderers).  Each leaves  *)
(* the variables of the other components at their idle values.             *)
(***************************************************************************)
EXTENDS Integers, Sequences, FiniteSets, TLC

VARIABLES view, result,        \* SheetView indexing: the parent view, the last __getitem__
          overlay, ovRes,      \* SheetOverlay: the overlay object, the last operation on it
          stack, stRes,        \* SheetStack: the stack object, the last insertion
          hcsIn, hcsOut,       \* HCS: the overlay handed to HCS, the view it returned
          plot, plotRes,       \* renderers: the renderer object, the last call on it
          figs,                \* pyplot: the figures created so far and the closed ones
          rgba,                \* channel split and recombination: the view, its channels, the result
          grid,                \* GridLayoutPlot: the grid of layouts and its grid specification
          chan,                \* channel reduction: the registry, the caller's stack, the renderer's
          annot,               \* AnnotationPlot: the renderer, its stack and its handles
          coord,               \* PatternCoordinator: the coordinator and what a call of it returned
          anim,                \* Animation: the animation, the last insertion into it, and what A | B returned
          timeline,            \* Timeline: its pending objects, the open with-blocks, the pushes and pops made
          pgrid,               \* ProjectionGrid: the grid, its entries and the last item added
          curve,               \* DataCurvePlot: the renderer, the curves of its stack and its line handle
          coll                 \* SheetPlot._collapse: the overlay, the pattern and the overlay afterwards

\* the variables of the first five components, and of the later ones
core == <<view, result, overlay, ovRes, stack, stRes, hcsIn, hcsOut, plot, plotRes, figs>>
late == <<coord, anim, timeline, pgrid, curve, coll>>
ext == <<rgba, grid, chan, annot, late>>
vars == <<core, ext>>

----------------------------------------------------------------------------
(* Bounds of the model *)

MaxCoord == 4      \* sheet coordinates of requests range over 0..MaxCoord
MaxDim == 2        \* arrays have 1..MaxDim rows and columns
MaxLayers == 3     \* an overlay holds at most MaxLayers layers
MaxKey == 2        \* stack keys range over 0..MaxKey
HueDen == 4        \* channel values are the multiples k/HueDen of 1/HueDen in [0, 1]
HueCells == 2      \* a channel array has one row of HueCells cells
MaxFrames == 3     \* a stack handed to a renderer holds at most MaxFrames entries
MaxChildren == 4   \* an overlay renderer is drawn again while it has at most MaxChildren children
MaxFigs == 2       \* renderers create at most MaxFigs figures of their own
MaxPatterns == 2   \* patterns_per_label ranges over 0..MaxPatterns
MaxSeed == 1       \* master_seed ranges over 0..MaxSeed
MaxDuration == 2   \* the duration of an animation ranges over 1..MaxDuration
MaxAnim == 2       \* animations are filled with at most MaxAnim frames; B holds 0..MaxAnim
MaxUses == 2       \* a Timeline is entered at most MaxUses times
MaxNest == 2       \* at most MaxNest with-blocks of a Timeline are open at once
MaxObjs == 2       \* a call supplies at most MaxObjs objects
MaxItems == 2      \* items are added to a ProjectionGrid holding fewer than MaxItems entries
MaxPoints == 2     \* a curve is given with 1..MaxPoints points
MaxLine == 4       \* a curve renderer is drawn or updated while its curves have at most MaxLine points
MaxCurveFrames == 2 \* a stack of curves holds 1..MaxCurveFrames frames
MaxCollapse == 4   \* _collapse is applied to overlays of 0..MaxCollapse layers
MaxPattern == 3    \* and to patterns of 1..MaxPattern segments

\* Python's None for an optional value: the empty tuple; <<v>> is the value v
None == <<>>
Some(v) == <<v>>

----------------------------------------------------------------------------
(* Exact fractions *)

Frac(n, d) == <<n, d>>
FracEq(p, q) == p[1] * q[2] = q[1] * p[2]
\* floor and ceiling of a / b for b > 0
Floor(a, b) == a \div b
Ceil(a, b) == -((-a) \div b)
Max(a, b) == IF a >= b THEN a ELSE b
Min(a, b) == IF a <= b THEN a ELSE b

----------------------------------------------------------------------------
(* Arrays: a shape and the cells, each cell a value *)

Array(rows, cols, f) == [rows |-> rows, cols |-> cols, cells |-> f]
EmptyCells == [rc \in {} |-> 0]
\* an array whose cells are pairwise different: cell (r, c) holds (r-1)*cols + c
Ramp(rows, cols) ==
    Array(rows, cols, [rc \in (1..rows) \X (1..cols) |-> (rc[1] - 1) * cols + rc[2]])

\* Python's normalisation of one slice index against a length n
SliceIndex(i, n) == IF i < 0 THEN Max(i + n, 0) ELSE Min(i, n)

\* numpy: matrix[r1:r2, c1:c2]
Submatrix(a, r1, r2, c1, c2) ==
    LET rs == SliceIndex(r1, a.rows)
        re == SliceIndex(r2, a.rows)
        cs == SliceIndex(c1, a.cols)
        ce == SliceIndex(c2, a.cols)
        nr == Max(re - rs, 0)
        nc == Max(ce - cs, 0)
    IN  Array(nr, nc, [rc \in (1..nr) \X (1..nc) |-> a.cells[<<rs + rc[1], cs + rc[2]>>]])

IsEmptyArray(a) == a.rows = 0 \/ a.cols = 0

----------------------------------------------------------------------------
(* Bounding regions and the sheet coordinate system *)

\* BoundingBox(points=((x0, y0), (x1, y1))): the axis-aligned rectangle through
\* the two points, as its lbrt()
BoundingBox(x0, y0, x1, y1) == <<Min(x0, x1), Min(y0, y1), Max(x0, x1), Max(y0, y1)>>

\* SheetCoordinateSystem.sheet2matrix: continuous matrix coordinates <<row, col>>
\* of the sheet point (x, y), each an exact fraction
sheet2matrix(scs, x, y) ==
    <<Frac((scs.bounds[4] - y) * scs.ydensity[1], scs.ydensity[2]),
      Frac((x - scs.bounds[1]) * scs.xdensity[1], scs.xdensity[2])>>

\* SheetCoordinateSystem.sheet2matrixidx: the cell that covers the point
sheet2matrixidx(scs, x, y) ==
    LET m == sheet2matrix(scs, x, y)
    IN  <<Floor(m[1][1], m[1][2]), Floor(m[2][1], m[2][2])>>

\* Slice(bounds, scs): the index ranges <<r1, r2, c1, c2>> of the cells whose
\* centres lie in bounds: ceil(v - 0.5) for the low edges, floor(v + 0.5) for
\* the high ones
Slice(bounds, scs) ==
    LET tl == sheet2matrix(scs, bounds[1], bounds[4])
        br == sheet2matrix(scs, bounds[3], bounds[2])
    IN  <<Ceil(2 * tl[1][1] - tl[1][2], 2 * tl[1][2]),
          Floor(2 * br[1][1] + br[1][2], 2 * br[1][2]),
          Ceil(2 * tl[2][1] - tl[2][2], 2 * tl[2][2]),
          Floor(2 * br[2][1] + br[2][2], 2 * br[2][2])>>

\* Slice.submatrix(matrix)
Slice_submatrix(sl, matrix) == Submatrix(matrix, sl[1], sl[2], sl[3], sl[4])

----------------------------------------------------------------------------
(* SheetView *)

NoView == [ok |-> FALSE, err |-> "", data |-> Array(0, 0, EmptyCells),
           bounds |-> <<0, 0, 0, 0>>, roi_bounds |-> <<0, 0, 0, 0>>,
           xdensity |-> Frac(0, 1), ydensity |-> Frac(0, 1),
           cyclic_range |-> None, style |-> "", metadata |-> ""]

\* SheetLayer.__init__: the region of interest defaults to the bounds
SheetLayer_init(bounds, roi_bounds) == IF roi_bounds = None THEN bounds ELSE roi_bounds[1]

\* SheetView.__init__(data, bounds, **kwargs); a division by a zero extent
\* raises ZeroDivisionError and no view is made
SheetView_init(data, bounds, roi_bounds, cyclic_range, style, metadata) ==
    LET l == bounds[1]
        b == bounds[2]
        r == bounds[3]
        t == bounds[4]
        dim1 == data.rows
        dim2 == data.cols
    IN  IF r - l = 0 \/ t - b = 0
        THEN [NoView EXCEPT !.err = "ZeroDivisionError"]
        ELSE [ok |-> TRUE, err |-> "", data |-> data, bounds |-> bounds,
              roi_bounds |-> SheetLayer_init(bounds, roi_bounds),
              xdensity |-> Frac(dim1, r - l),
              ydensity |-> Frac(dim2, t - b),
              cyclic_range |-> cyclic_range, style |-> style, metadata |-> metadata]

\* numpy: data[row, col] for integer indices; a negative index counts from the end
IndexInRange(i, n) == -n <= i /\ i < n
WrapIndex(i, n) == IF i < 0 THEN i + n ELSE i

\* The outcome of an indexing operation
Outcome(kind, err, v, sample) == [kind |-> kind, err |-> err, view |-> v, sample |-> sample]

\* SheetView.__getitem__(coords).  A request is
\*   kind "empty"              v[()]
\*   kind "open"               v[:]
\*   kind "scalars", px, py    v[px, py]
\*   kind "slices", x, y       v[x0:x1, y0:y1], x = <<start, stop>>, each optional
\*   kind "mixed"              v[x, y0:y1] or v[x0:x1, y]
SheetView_getitem(self, coords) ==
    IF coords.kind \in {"empty", "open"} THEN Outcome("self", "", self, 0)
    ELSE IF coords.kind = "scalars" THEN
        LET idx == sheet2matrixidx(self, coords.px, coords.py)
        IN  IF IndexInRange(idx[1], self.data.rows) /\ IndexInRange(idx[2], self.data.cols)
            THEN Outcome("sample", "", NoView,
                         self.data.cells[<<WrapIndex(idx[1], self.data.rows) + 1,
                                           WrapIndex(idx[2], self.data.cols) + 1>>])
            ELSE Outcome("error", "IndexError", NoView, 0)
    ELSE IF coords.kind = "slices" THEN
        LET l == self.bounds[1]
            b == self.bounds[2]
            r == self.bounds[3]
            t == self.bounds[4]
            xstart == IF coords.x[1] = None THEN l ELSE Max(l, coords.x[1][1])
            xend == IF coords.x[2] = None THEN r ELSE Min(r, coords.x[2][1])
            ystart == IF coords.y[1] = None THEN b ELSE Max(b, coords.y[1][1])
            yend == IF coords.y[2] = None THEN t ELSE Min(t, coords.y[2][1])
            bounds == BoundingBox(xstart, ystart, xend, yend)
            new == SheetView_init(Slice_submatrix(Slice(bounds, self), self.data),
                                  bounds, None, self.cyclic_range, self.style, self.metadata)
        IN  IF new.ok THEN Outcome("view", "", new, 0)
            ELSE Outcome("error", new.err, NoView, 0)
    ELSE Outcome("error", "IndexError", NoView, 0)

----------------------------------------------------------------------------
(* Idle values of the components a specification does not exercise *)

IdleView == NoView
IdleResult == [out |-> Outcome("none", "", NoView, 0),
               req |-> [kind |-> "none", x |-> <<None, None>>, y |-> <<None, None>>,
                        px |-> 0, py |-> 0]]
IdleOverlay == [exists |-> FALSE, bounds |-> <<0, 0, 0, 0>>, roi_bounds |-> <<0, 0, 0, 0>>,
                data |-> <<>>]
IdleOvRes == [op |-> "none", err |-> "", layers |-> <<>>, bounds |-> <<0, 0, 0, 0>>,
              before |-> <<>>]
IdleStack == [bounds |-> None, items |-> <<>>]
IdleStRes == [op |-> "none", err |-> "", key |-> 0, data |-> [type |-> "", bounds |-> <<0, 0, 0, 0>>],
              before |-> [bounds |-> None, items |-> <<>>]]
IdleHcsIn == [kind |-> "none", overlay |-> IdleOverlay]
IdleHcsOut == [kind |-> "none", err |-> "", flipSC |-> FALSE, bounds |-> <<0, 0, 0, 0>>,
               roi_bounds |-> <<0, 0, 0, 0>>, data |-> Array(0, 0, EmptyCells)]
IdlePlot == [kind |-> "none", fromStack |-> FALSE, stack |-> <<>>, layout |-> <<>>,
             layout_type |-> "", pos |-> "", drawn |-> FALSE, im |-> 0, zorder |-> 0,
             plots |-> <<>>, fig |-> None, ax |-> None, calls |-> <<>>]
IdleFigs == [created |-> 0, closed |-> {}]
IdlePlotRes == [op |-> "none", err |-> "", n |-> 0, given |-> 0, axis |-> None, ret |-> None,
                before |-> IdleFigs, warned |-> FALSE]

SliceIdle == /\ view = IdleView /\ result = IdleResult
OverlayIdle == /\ overlay = IdleOverlay /\ ovRes = IdleOvRes
StackIdle == /\ stack = IdleStack /\ stRes = IdleStRes
HcsIdle == /\ hcsIn = IdleHcsIn /\ hcsOut = IdleHcsOut
PlotIdle == /\ plot = IdlePlot /\ plotRes = IdlePlotRes /\ figs = IdleFigs

IdleRgba == [phase |-> "none", src |-> <<>>, parts |-> <<>>, err |-> "", out |-> <<>>]
IdleGrid == [phase |-> "none", shape |-> <<0, 0>>, cells |-> <<>>, width_ratios |-> <<>>,
             height_ratios |-> <<>>, wr_list |-> <<>>, hr_list |-> <<>>, rows |-> 0, cols |-> 0,
             types |-> <<>>, subplot_specs |-> <<>>, gidx |-> 0]
IdleChan == [phase |-> "none", channels |-> <<>>, before |-> <<>>, input |-> <<>>,
             stack |-> <<>>, log |-> <<>>, same |-> FALSE]
IdleAnnot == [phase |-> "none", err |-> "", dim_labels |-> <<>>, stack |-> <<>>,
              warned |-> FALSE, axis |-> None, handles |-> <<>>, initial |-> <<>>,
              removed |-> {}, next |-> 1, frame |-> 0]
IdleCoord == [phase |-> "none", inherent_features |-> {}, features_to_vary |-> {},
              items |-> <<>>, pattern_labels |-> <<>>, patterns_per_label |-> 0,
              master_seed |-> 0, warned |-> FALSE, to_apply |-> <<>>, out |-> <<>>]
IdleAnimation == [duration |-> 1, bounds |-> None, items |-> <<>>]
IdleAnim == [phase |-> "none", self |-> IdleAnimation, before |-> IdleAnimation, op |-> "none",
             err |-> "", key |-> 0, other |-> <<>>, out |-> IdleAnimation]
IdleTimeline == [made |-> FALSE, has_objs |-> FALSE, objs |-> None, blocks |-> <<>>,
                 pushes |-> <<>>, pops |-> <<>>, time_enter |-> 0, time_exit |-> 0,
                 uses |-> 0, op |-> "none", err |-> "", supplied |-> <<>>,
                 pushes_before |-> <<>>, pops_before |-> <<>>, time_before |-> 0]
IdlePgrid == [made |-> FALSE, bounds |-> <<0, 0, 0, 0>>, shape |-> <<0, 0>>,
              xdensity |-> Frac(0, 1), ydensity |-> Frac(0, 1), items |-> <<>>,
              op |-> "none", coords |-> <<0, 0>>, warned |-> FALSE, before |-> <<>>]
IdleCurve == [made |-> FALSE, cyclic_range |-> None, center |-> FALSE, stack |-> <<>>,
              peak_argmax |-> 0, drawn |-> FALSE, line_segments |-> <<>>, op |-> "none",
              n |-> 0, before |-> <<>>, prev |-> [op |-> "none", n |-> 0, line_segments |-> <<>>]]
IdleColl == [op |-> "none", layers |-> <<>>, pattern |-> <<>>, out |-> <<>>]
ExtIdle == /\ rgba = IdleRgba /\ grid = IdleGrid /\ chan = IdleChan /\ annot = IdleAnnot
           /\ coord = IdleCoord
           /\ anim = IdleAnim
           /\ timeline = IdleTimeline
           /\ pgrid = IdlePgrid
           /\ curve = IdleCurve
           /\ coll = IdleColl

----------------------------------------------------------------------------
(* SpecSlice: SheetViews are constructed and indexed in sheet coordinates *)

Coords == 0..MaxCoord
\* the bounds of the views that are constructed: inside the requests' range, so
\* that a request can lie on either side of a view
ViewBounds == {<<l, b, r, t>> \in (1..(MaxCoord - 1)) \X (1..(MaxCoord - 1))
                                 \X (1..(MaxCoord - 1)) \X (1..(MaxCoord - 1)) :
                   l < r /\ b < t}
Shapes == (1..MaxDim) \X (1..MaxDim)
CyclicRanges == {None, Some(1)}
StyleNames == {"Gray", "Hot"}


\* a slice a:b with a < b, either end optional
SliceRanges == {<<None, None>>}
               \cup {<<Some(a), None>> : a \in Coords}
               \cup {<<None, Some(b)>> : b \in Coords}
               \cup {<<Some(a), Some(b)>> : a \in Coords, b \in Coords}
ProperRanges == {sr \in SliceRanges : sr[1] = None \/ sr[2] = None \/ sr[1][1] < sr[2][1]}

\* an index: its kind, the slice ranges x and y (kind "slices") and the point
\* (px, py) (kind "scalars")
Req(kind, xs, ys, px, py) == [kind |-> kind, x |-> xs, y |-> ys, px |-> px, py |-> py]
Requests == {Req(k, <<None, None>>, <<None, None>>, 0, 0) : k \in {"empty", "open", "mixed"}}
            \cup {Req("scalars", <<None, None>>, <<None, None>>, x, y) : x \in Coords, y \in Coords}
            \cup {Req("slices", xs, ys, 0, 0) : xs \in ProperRanges, ys \in ProperRanges}

SliceInit == SliceIdle /\ OverlayIdle /\ StackIdle /\ HcsIdle /\ PlotIdle /\ ExtIdle

\* SheetView(data, bounds, cyclic_range=..., style=...) on an array of the given
\* shape
Construct(sh, bb, cr, st) ==
    /\ ~view.ok
    /\ view' = SheetView_init(Ramp(sh[1], sh[2]), bb, None, cr, st, "meta")
    /\ result' = IdleResult
    /\ UNCHANGED <<overlay, ovRes, stack, stRes, hcsIn, hcsOut, plot, plotRes, figs, ext>>

\* v[coords] on the current view
GetItem(coords) ==
    /\ view.ok
    /\ result.out.kind = "none"
    /\ result' = [out |-> SheetView_getitem(view, coords), req |-> coords]
    /\ UNCHANGED <<view, overlay, ovRes, stack, stRes, hcsIn, hcsOut, plot, plotRes, figs, ext>>

\* the program goes on with the view a slicing returned (v = v[a:b, c:d])
Descend ==
    /\ result.out.kind = "view"
    /\ ~IsEmptyArray(result.out.view.data)
    /\ view' = result.out.view
    /\ result' = IdleResult
    /\ UNCHANGED <<overlay, ovRes, stack, stRes, hcsIn, hcsOut, plot, plotRes, figs, ext>>

SliceNext ==
    \/ \E sh \in Shapes, bb \in ViewBounds, cr \in CyclicRanges, st \in StyleNames :
          Construct(sh, bb, cr, st)
    \/ \E coords \in Requests : GetItem(coords)
    \/ Descend

SpecSlice == SliceInit /\ [][SliceNext]_vars

----------------------------------------------------------------------------
(* Claims about SheetView construction and indexing *)

\* the requested range <<start, stop>> lies strictly beside the extent lo..hi
RangeOutside(sr, lo, hi) ==
    \/ sr[2] # None /\ sr[2][1] < lo
    \/ sr[1] # None /\ sr[1][1] > hi
\* the requested range covers the extent lo..hi
RangeCovers(sr, lo, hi) ==
    /\ sr[1] = None \/ sr[1][1] <= lo
    /\ sr[2] = None \/ sr[2][1] >= hi
\* a requested edge clamped to the extent lo..hi; a missing edge is the default
ClampEdge(e, lo, hi, default) == IF e = None THEN default ELSE Min(hi, Max(lo, e[1]))

\* C5: indexing a SheetView with two slice ranges that describe a region lying
\* entirely outside the view's bounds returns an empty result, never an error.
C5_OutsideSliceIsEmpty ==
    (/\ result.req.kind = "slices"
     /\ \/ RangeOutside(result.req.x, view.bounds[1], view.bounds[3])
        \/ RangeOutside(result.req.y, view.bounds[2], view.bounds[4]))
    => /\ result.out.kind = "view"
       /\ IsEmptyArray(result.out.view.data)

\* C6: indexing a view with the identity region (the empty index, the open
\* slice, or two slices equal to or wider than the full bounds) yields a view
\* with the data and the bounds of the original.
C6_IdentityRegionRoundTrip ==
    (\/ result.req.kind \in {"empty", "open"}
     \/ /\ result.req.kind = "slices"
        /\ RangeCovers(result.req.x, view.bounds[1], view.bounds[3])
        /\ RangeCovers(result.req.y, view.bounds[2], view.bounds[4]))
    => /\ result.out.kind \in {"self", "view"}
       /\ result.out.view.data = view.data
       /\ result.out.view.bounds = view.bounds

\* C7: indexing with two slice ranges returns a new view whose bounds are the
\* requested ranges with each edge clamped to the parent's extent (a missing
\* edge taken from the parent) and whose cyclic_range, style and metadata are
\* the parent's; indexing with one scalar and one slice raises IndexError.
C7_SliceBoundsAreIntersection ==
    /\ result.req.kind = "slices" =>
          /\ result.out.kind = "view"
          /\ result.out.view.bounds =
                <<ClampEdge(result.req.x[1], view.bounds[1], view.bounds[3], view.bounds[1]),
                  ClampEdge(result.req.y[1], view.bounds[2], view.bounds[4], view.bounds[2]),
                  ClampEdge(result.req.x[2], view.bounds[1], view.bounds[3], view.bounds[3]),
                  ClampEdge(result.req.y[2], view.bounds[2], view.bounds[4], view.bounds[4])>>
          /\ result.out.view.cyclic_range = view.cyclic_range
          /\ result.out.view.style = view.style
          /\ result.out.view.metadata = view.metadata
    /\ result.req.kind = "mixed" =>
          /\ result.out.kind = "error"
          /\ result.out.err = "IndexError"

\* the density invariant of one view
DensityOfShape(v) ==
    /\ FracEq(v.xdensity, Frac(v.data.cols, v.bounds[3] - v.bounds[1]))
    /\ FracEq(v.ydensity, Frac(v.data.rows, v.bounds[4] - v.bounds[2]))

\* C8: every SheetView with data of shape (rows, cols) and bounds (left,
\* bottom, right, top) has xdensity = cols/(right-left) and ydensity =
\* rows/(top-bottom), for every shape including non-square arrays.
C8_DensityMatchesShape ==
    /\ view.ok => DensityOfShape(view)
    /\ result.out.kind = "view" => DensityOfShape(result.out.view)

----------------------------------------------------------------------------
(* SheetOverlay *)

\* two bounding regions that differ
BoundsA == <<0, 0, 2, 2>>
BoundsB == <<0, 0, 4, 4>>
LayerBounds == {BoundsA, BoundsB}
LayerTypes == {"SheetView", "SheetPoints"}

\* a SheetLayer other than an overlay: its class, bounds and region of interest
Layer(type, bounds, roi_bounds) == [type |-> type, bounds |-> bounds, roi_bounds |-> roi_bounds]
Layers == {Layer(ty, bb, bb) : ty \in LayerTypes, bb \in LayerBounds}

\* an overlay object
Overlay(bounds, roi_bounds, data) ==
    [exists |-> TRUE, bounds |-> bounds, roi_bounds |-> roi_bounds, data |-> data]

\* SheetOverlay.add(layer): [err, self], self as the call leaves it
SheetOverlay_add_unchecked(self, layer) ==
    [err |-> "", self |-> [self EXCEPT !.data = Append(self.data, layer)]]
SheetOverlay_add(self, layer) ==
    IF layer.bounds # self.bounds
    THEN [err |-> "Exception", self |-> self]
    ELSE [err |-> "", self |-> [self EXCEPT !.data = Append(self.data, layer)]]

\* the loop of SheetOverlay.set: add the layers one by one, stop at the first error
RECURSIVE AddAll(_, _)
AddAll(self, layers) ==
    IF layers = <<>> THEN [err |-> "", self |-> self]
    ELSE LET r == SheetOverlay_add(self, Head(layers))
         IN  IF r.err # "" THEN r ELSE AddAll(r.self, Tail(layers))

\* SheetOverlay.set(layers)
SheetOverlay_set(self, layers) == AddAll([self EXCEPT !.data = <<>>], layers)

\* SheetOverlay.__init__(overlays, bounds, roi_bounds=...)
SheetOverlay_init(overlays, bounds, roi_bounds) ==
    SheetOverlay_set(Overlay(bounds, SheetLayer_init(bounds, roi_bounds), <<>>), overlays)

\* SheetLayer.__mul__(self, other): an operand is a layer or an overlay
IsOverlay(x) == "exists" \in DOMAIN x
SheetLayer_mul(self, other) ==
    LET overlays == IF IsOverlay(self)
                    THEN (IF IsOverlay(other) THEN self.data \o other.data
                          ELSE self.data \o <<other>>)
                    ELSE (IF IsOverlay(other) THEN <<self>> \o other.data
                          ELSE <<self, other>>)
    IN  SheetOverlay_init(overlays, self.bounds, Some(self.roi_bounds))

----------------------------------------------------------------------------
(* SpecOverlay: an overlay is constructed, extended, reset and multiplied *)

LayerSeqs == UNION {[1..n -> Layers] : n \in 0..2}
\* the overlays that exist besides the one under observation: a layer of each
\* bounds, twice
OtherOverlays == {Overlay(l.bounds, l.bounds, <<l, l>>) : l \in Layers}

OverlayInit == SliceIdle /\ OverlayIdle /\ StackIdle /\ HcsIdle /\ PlotIdle /\ ExtIdle

OvRecord(op, r, layers, bounds) ==
    [op |-> op, err |-> r.err, layers |-> layers, bounds |-> bounds, before |-> overlay.data]

\* SheetOverlay(layers, bounds): a failed construction leaves no new object
OvConstruct(layers, bounds) ==
    LET r == SheetOverlay_init(layers, bounds, None)
    IN  /\ ~overlay.exists
        /\ overlay' = IF r.err = "" THEN r.self ELSE overlay
        /\ ovRes' = OvRecord("construct", r, layers, bounds)
        /\ UNCHANGED <<view, result, stack, stRes, hcsIn, hcsOut, plot, plotRes, figs, ext>>

\* overlay.add(layer)
OvAdd(layer) ==
    LET r == SheetOverlay_add(overlay, layer)
    IN  /\ overlay.exists
        /\ Len(overlay.data) < MaxLayers
        /\ overlay' = r.self
        /\ ovRes' = OvRecord("add", r, <<layer>>, overlay.bounds)
        /\ UNCHANGED <<view, result, stack, stRes, hcsIn, hcsOut, plot, plotRes, figs, ext>>

\* overlay.set(layers): the object keeps the layers added before an error
OvSet(layers) ==
    LET r == SheetOverlay_set(overlay, layers)
    IN  /\ overlay.exists
        /\ overlay' = r.self
        /\ ovRes' = OvRecord("set", r, layers, overlay.bounds)
        /\ UNCHANGED <<view, result, stack, stRes, hcsIn, hcsOut, plot, plotRes, figs, ext>>

\* overlay = overlay * other, other a layer or an overlay
OvMul(other) ==
    LET r == SheetLayer_mul(overlay, other)
        added == IF IsOverlay(other) THEN other.data ELSE <<other>>
    IN  /\ overlay.exists
        /\ Len(overlay.data) + Len(added) <= MaxLayers
        /\ overlay' = IF r.err = "" THEN r.self ELSE overlay
        /\ ovRes' = OvRecord("mul", r, overlay.data \o added, overlay.bounds)
        /\ UNCHANGED <<view, result, stack, stRes, hcsIn, hcsOut, plot, plotRes, figs, ext>>

\* overlay = layer * other, layer a plain layer
LayerMul(layer, other) ==
    LET r == SheetLayer_mul(layer, other)
        added == IF IsOverlay(other) THEN other.data ELSE <<other>>
    IN  /\ ~overlay.exists
        /\ overlay' = IF r.err = "" THEN r.self ELSE overlay
        /\ ovRes' = OvRecord("layermul", r, <<layer>> \o added, layer.bounds)
        /\ UNCHANGED <<view, result, stack, stRes, hcsIn, hcsOut, plot, plotRes, figs, ext>>

OverlayNext ==
    \/ \E layers \in LayerSeqs, bounds \in LayerBounds : OvConstruct(layers, bounds)
    \/ \E layer \in Layers : OvAdd(layer)
    \/ \E layers \in LayerSeqs : OvSet(layers)
    \/ \E other \in Layers \cup OtherOverlays : OvMul(other)
    \/ \E layer \in Layers, other \in Layers \cup OtherOverlays : LayerMul(layer, other)

SpecOverlay == OverlayInit /\ [][OverlayNext]_vars

\* some layer handed to the last operation has bounds other than the overlay's
Offending(res) == \E i \in 1..Len(res.layers) : res.layers[i].bounds # res.bounds

\* C4: every SheetOverlay reachable through construction, add, set or the *
\* operator holds only layers whose bounds equal the overlay's bounds; an
\* operation handed a layer with other bounds fails with an error at that
\* moment and the offending layer is not appended.
C4_OverlayLayersShareBounds ==
    /\ overlay.exists =>
          \A i \in 1..Len(overlay.data) : overlay.data[i].bounds = overlay.bounds
    /\ ovRes.op # "none" => (Offending(ovRes) <=> ovRes.err = "Exception")
    /\ (ovRes.op = "add" /\ Offending(ovRes)) => overlay.data = ovRes.before
    /\ (ovRes.op = "add" /\ ~Offending(ovRes)) =>
          overlay.data = Append(ovRes.before, ovRes.layers[1])

\* an add of a layer with other bounds was rejected on an overlay with layers
C4_Witness ==
    /\ overlay.exists /\ Len(overlay.data) >= 2
    /\ ovRes.op = "add" /\ Offending(ovRes) /\ ovRes.err = "Exception"

----------------------------------------------------------------------------
(* SheetStack: an NdMapping from keys to layers, kept in key order *)

\* the elements offered to a stack: layers and overlays, and an object with
\* bounds that is no SheetLayer
ElementTypes == {"SheetView", "SheetPoints", "SheetOverlay", "NotALayer"}
Element(type, bounds) == [type |-> type, bounds |-> bounds]
Elements == {Element(ty, bb) : ty \in ElementTypes, bb \in LayerBounds}

\* NdMapping.top: the last value in key order
NdMapping_top(s) == s.items[Len(s.items)].val

\* SheetStack.type: None for an empty stack, else the class of its top
SheetStack_type(s) == IF Len(s.items) = 0 THEN None ELSE Some(NdMapping_top(s).type)

\* NdMapping._item_check: the element is an instance of data_type (SheetLayer)
NdMapping_item_check(s, dim_vals, data) ==
    IF data.type = "NotALayer" THEN "TypeError" ELSE ""

\* SheetStack._item_check(dim_vals, data): [err, self]; the bounds of a stack
\* that has none are set before any check
SheetStack_item_check_untyped(s, dim_vals, data) ==
    LET s1 == IF s.bounds = None THEN [s EXCEPT !.bounds = Some(data.bounds)] ELSE s
    IN  IF data.bounds # s1.bounds[1] THEN [err |-> "AssertionError", self |-> s1]
        ELSE [err |-> NdMapping_item_check(s1, dim_vals, data), self |-> s1]
SheetStack_item_check(s, dim_vals, data) ==
    LET s1 == IF s.bounds = None THEN [s EXCEPT !.bounds = Some(data.bounds)] ELSE s
    IN  IF data.bounds # s1.bounds[1] THEN [err |-> "AssertionError", self |-> s1]
        ELSE IF SheetStack_type(s1) # None /\ Some(data.type) # SheetStack_type(s1)
        THEN [err |-> "AssertionError", self |-> s1]
        ELSE [err |-> NdMapping_item_check(s1, dim_vals, data), self |-> s1]

\* NdMapping._add_item with sort=True: replace the value of a key held, else
\* insert in key order
NdMapping_add_item(s, key, data) ==
    LET below == SelectSeq(s.items, LAMBDA it : it.key < key)
        above == SelectSeq(s.items, LAMBDA it : it.key > key)
    IN  [s EXCEPT !.items = below \o <<[key |-> key, val |-> data]>> \o above]

\* stack[key] = data: the item check, then the insertion
SheetStack_setitem(s, key, data) ==
    LET r == SheetStack_item_check(s, key, data)
    IN  IF r.err # "" THEN r
        ELSE [err |-> "", self |-> NdMapping_add_item(r.self, key, data)]

----------------------------------------------------------------------------
(* SpecStack: a stack is made, with or without bounds, and filled *)

StackInit == SliceIdle /\ OverlayIdle /\ StackIdle /\ HcsIdle /\ PlotIdle /\ ExtIdle

\* SheetStack(bounds=bounds)
StackConstruct(bounds) ==
    /\ stRes.op = "none"
    /\ stack' = [bounds |-> Some(bounds), items |-> <<>>]
    /\ stRes' = [IdleStRes EXCEPT !.op = "construct"]
    /\ UNCHANGED <<view, result, overlay, ovRes, hcsIn, hcsOut, plot, plotRes, figs, ext>>

\* stack[key] = data
StackInsert(key, data) ==
    LET r == SheetStack_setitem(stack, key, data)
    IN  /\ stack' = r.self
        /\ stRes' = [op |-> "insert", err |-> r.err, key |-> key, data |-> data,
                      before |-> stack]
        /\ UNCHANGED <<view, result, overlay, ovRes, hcsIn, hcsOut, plot, plotRes, figs, ext>>

StackNext ==
    \/ \E bounds \in LayerBounds : StackConstruct(bounds)
    \/ \E key \in 0..MaxKey, data \in Elements : StackInsert(key, data)

SpecStack == StackInit /\ [][StackNext]_vars

\* C3: after any sequence of insertions into a SheetStack (accepted or
\* rejected), all entries held by the stack have the same concrete type and
\* bounds equal to the stack's bounds; an insertion whose element has a
\* different type or different bounds than the existing entries is rejected
\* with an error.
C3_StackHomogeneous ==
    /\ \A i \in 1..Len(stack.items) :
          /\ stack.bounds # None
          /\ stack.items[i].val.bounds = stack.bounds[1]
          /\ stack.items[i].val.type = stack.items[1].val.type
    /\ (/\ stRes.op = "insert"
        /\ \E i \in 1..Len(stRes.before.items) :
              \/ stRes.before.items[i].val.type # stRes.data.type
              \/ stRes.before.items[i].val.bounds # stRes.data.bounds)
       => /\ stRes.err # ""
          /\ stack.items = stRes.before.items

\* an element of another type and the same bounds was offered to a stack of
\* two entries, at a key the stack holds, and rejected
C3_Witness ==
    /\ stRes.op = "insert" /\ stRes.err = "AssertionError"
    /\ Len(stack.items) >= 2
    /\ stRes.data.bounds = stack.bounds[1]
    /\ stRes.data.type # stack.items[1].val.type
    /\ \E i \in 1..Len(stack.items) : stack.items[i].key = stRes.key

----------------------------------------------------------------------------
(* HCS: hue-confidence-strength composition.  A channel value k stands for  *)
(* k/HueDen; a computed value is an exact fraction; <<0, 0>> is NaN.        *)

C_multiplier == 1
S_multiplier == 1

NaN == Frac(0, 0)
IsNaN(f) == f[2] = 0

\* the least and the greatest cell of a non-empty array
ArrayMin(a) == CHOOSE m \in {a.cells[rc] : rc \in DOMAIN a.cells} :
                  \A rc \in DOMAIN a.cells : m <= a.cells[rc]
ArrayMax(a) == CHOOSE m \in {a.cells[rc] : rc \in DOMAIN a.cells} :
                  \A rc \in DOMAIN a.cells : m >= a.cells[rc]

\* SheetView.normalize() with its default arguments: the cells become fractions.
\* The factor is the cyclic range if the view has one, else the spread of the
\* data; the division is numpy's, a zero factor gives NaN
SheetView_normalize(self) ==
    LET norm_factor == IF self.cyclic_range # None THEN self.cyclic_range[1] * HueDen
                       ELSE ArrayMax(self.data) - ArrayMin(self.data)
        dmin == ArrayMin(self.data)
    IN  [rc \in DOMAIN self.data.cells |->
            IF norm_factor = 0 THEN NaN
            ELSE Frac(self.data.cells[rc] - dmin, norm_factor)]

\* numpy: x.clip(0.0, 1.0) of a fraction with a positive denominator; NaN stays
Clip01(f) == IF IsNaN(f) THEN f
             ELSE IF f[1] < 0 THEN Frac(0, f[2])
             ELSE IF f[1] > f[2] THEN Frac(f[2], f[2])
             ELSE f

\* colorsys.hsv_to_rgb(h, s, v) on fractions h = hn/hd, s = sn/sd, v = vn/vd:
\* <<r, g, b>>, each a fraction over the denominator hd*sd*vd.  int() of a NaN
\* raises ValueError: the result is then <<NaN, NaN, NaN>>
hsv_to_rgb(h, s, v) ==
    IF s[1] = 0 THEN <<Frac(v[1], v[2]), Frac(v[1], v[2]), Frac(v[1], v[2])>>
    ELSE IF IsNaN(h) THEN <<NaN, NaN, NaN>>
    ELSE LET i == (6 * h[1]) \div h[2]
             fn == 6 * h[1] - i * h[2]          \* f = fn / hd
             den == h[2] * s[2] * v[2]
             vv == Frac(v[1] * h[2] * s[2], den)
             pp == Frac(v[1] * (s[2] - s[1]) * h[2], den)
             qq == Frac(v[1] * (s[2] * h[2] - s[1] * fn), den)
             tt == Frac(v[1] * (s[2] * h[2] - s[1] * (h[2] - fn)), den)
             k == i % 6
         IN  CASE k = 0 -> <<vv, tt, pp>>
               [] k = 1 -> <<qq, vv, pp>>
               [] k = 2 -> <<pp, vv, tt>>
               [] k = 3 -> <<pp, qq, vv>>
               [] k = 4 -> <<tt, pp, vv>>
               [] k = 5 -> <<vv, pp, qq>>

ColourEq(c1, c2) ==
    \A j \in 1..3 : ~IsNaN(c1[j]) /\ ~IsNaN(c2[j]) /\ FracEq(c1[j], c2[j])

\* HCS._process(overlay) with the parameter flipSC: the view returned, or the
\* error raised
HCS_process(ov, flipSC) ==
    LET hue == ov.data[1]
        confidence == ov.data[2]
        ones == [rc \in DOMAIN hue.data.cells |-> HueDen]
        strength_data == IF Len(ov.data) = 3 THEN ov.data[3].data.cells ELSE ones
        hN == SheetView_normalize(hue)
        h == [rc \in DOMAIN hue.data.cells |-> Clip01(hN[rc])]
        s == [rc \in DOMAIN hue.data.cells |->
                 Clip01(Frac(confidence.data.cells[rc] * C_multiplier, HueDen))]
        v == [rc \in DOMAIN hue.data.cells |->
                 Clip01(Frac(strength_data[rc] * S_multiplier, HueDen))]
        rgb == [rc \in DOMAIN hue.data.cells |->
                   IF flipSC THEN hsv_to_rgb(h[rc], v[rc], Clip01(s[rc]))
                   ELSE hsv_to_rgb(h[rc], s[rc], v[rc])]
    IN  IF <<hue.data.rows, hue.data.cols>> # <<confidence.data.rows, confidence.data.cols>>
        THEN [IdleHcsOut EXCEPT !.kind = "error", !.err = "Exception", !.flipSC = flipSC]
        ELSE IF \E rc \in DOMAIN rgb : IsNaN(rgb[rc][1])
        THEN [IdleHcsOut EXCEPT !.kind = "error", !.err = "ValueError", !.flipSC = flipSC]
        ELSE [kind |-> "view", err |-> "", flipSC |-> flipSC, bounds |-> hue.bounds,
              roi_bounds |-> ov.roi_bounds,
              data |-> Array(hue.data.rows, hue.data.cols, rgb)]

\* SheetPlot._collapse: the overlay handed to the channel operation is a new
\* overlay of the matching layers with the bounds of the overlay collapsed
SheetPlot_collapse_slice(views, ov) == SheetOverlay_init(views, ov.bounds, None)

----------------------------------------------------------------------------
(* SpecHCS: an overlay of channel views is built and handed to HCS *)

RoiA == <<0, 0, 1, 1>>      \* a region of interest inside BoundsA

\* a channel: a SheetView of one row whose cells are multiples of 1/HueDen
Channel(cells, cols, roi_bounds, cyclic_range) ==
    [type |-> "SheetView", data |-> Array(1, cols, cells), bounds |-> BoundsA,
     roi_bounds |-> roi_bounds, cyclic_range |-> cyclic_range]
Constant(cols, k) == [rc \in {1} \X (1..cols) |-> k]

HueViews == {Channel(cells, HueCells, roi, cr) :
                cells \in [{1} \X (1..HueCells) -> 0..HueDen],
                roi \in {BoundsA, RoiA}, cr \in CyclicRanges}
\* confidence: 1 everywhere, 1/2 everywhere, or 1 everywhere on another shape
ConfidenceViews == {Channel(Constant(HueCells, HueDen), HueCells, BoundsA, None),
                    Channel(Constant(HueCells, HueDen \div 2), HueCells, BoundsA, None),
                    Channel(Constant(1, HueDen), 1, BoundsA, None)}
\* strength: absent, or 1 or 1/2 everywhere
StrengthViews == {<<>>,
                  <<Channel(Constant(HueCells, HueDen), HueCells, BoundsA, None)>>,
                  <<Channel(Constant(HueCells, HueDen \div 2), HueCells, BoundsA, None)>>}

HcsInit == SliceIdle /\ OverlayIdle /\ StackIdle /\ HcsIdle /\ PlotIdle /\ ExtIdle

\* hue * confidence [* strength]
BuildByMul(hue, conf, strength) ==
    LET first == SheetLayer_mul(hue, conf)
        r == IF strength = <<>> THEN first ELSE SheetLayer_mul(first.self, strength[1])
    IN  /\ hcsIn.kind = "none"
        /\ hcsIn' = [kind |-> "mul", overlay |-> r.self]
        /\ UNCHANGED <<view, result, overlay, ovRes, stack, stRes, hcsOut, plot, plotRes, figs, ext>>

\* SheetOverlay([hue, confidence, ...], bounds, roi_bounds=...)
BuildByConstructor(hue, conf, strength, roi_bounds) ==
    LET r == SheetOverlay_init(<<hue, conf>> \o strength, BoundsA, roi_bounds)
    IN  /\ hcsIn.kind = "none"
        /\ hcsIn' = [kind |-> "constructor", overlay |-> r.self]
        /\ UNCHANGED <<view, result, overlay, ovRes, stack, stRes, hcsOut, plot, plotRes, figs, ext>>

\* SheetPlot._collapse takes the matching layers out of the overlay
\* hue * confidence [* strength] of a stack
BuildByCollapse(hue, conf, strength) ==
    LET first == SheetLayer_mul(hue, conf)
        ov == IF strength = <<>> THEN first ELSE SheetLayer_mul(first.self, strength[1])
        r == SheetPlot_collapse_slice(ov.self.data, ov.self)
    IN  /\ hcsIn.kind = "none"
        /\ hcsIn' = [kind |-> "collapse", overlay |-> r.self]
        /\ UNCHANGED <<view, result, overlay, ovRes, stack, stRes, hcsOut, plot, plotRes, figs, ext>>

\* HCS(overlay, flipSC=flipSC)
ApplyHCS(flipSC) ==
    /\ hcsIn.kind # "none"
    /\ hcsOut.kind = "none"
    /\ hcsOut' = HCS_process(hcsIn.overlay, flipSC)
    /\ UNCHANGED <<view, result, overlay, ovRes, stack, stRes, hcsIn, plot, plotRes, figs, ext>>

HcsNext ==
    \/ \E hue \in HueViews, conf \in ConfidenceViews, strength \in StrengthViews :
          BuildByMul(hue, conf, strength)
    \/ \E hue \in HueViews, conf \in ConfidenceViews, strength \in StrengthViews,
          roi_bounds \in {None, Some(RoiA)} :
          BuildByConstructor(hue, conf, strength, roi_bounds)
    \/ \E hue \in HueViews, conf \in ConfidenceViews, strength \in StrengthViews :
          BuildByCollapse(hue, conf, strength)
    \/ \E flipSC \in BOOLEAN : ApplyHCS(flipSC)

SpecHCS == HcsInit /\ [][HcsNext]_vars

\* C9: HCS applied to a two-layer overlay (hue, confidence) where every hue
\* value lies in [0,1], confidence is 1 everywhere and no strength layer is
\* present produces, at every cell, the RGB value hsv_to_rgb(hue, 1, 1) of the
\* original, un-rescaled hue value.
C9_PureHueColour ==
    (/\ hcsOut.kind # "none"
     /\ Len(hcsIn.overlay.data) = 2
     /\ hcsIn.overlay.data[2].data = Array(1, HueCells, Constant(HueCells, HueDen)))
    => /\ hcsOut.kind = "view"
       /\ \A rc \in DOMAIN hcsOut.data.cells :
             ColourEq(hcsOut.data.cells[rc],
                      hsv_to_rgb(Frac(hcsIn.overlay.data[1].data.cells[rc], HueDen),
                                 Frac(1, 1), Frac(1, 1)))

\* C10: the view returned by HCS has bounds equal to the hue layer's bounds and
\* region-of-interest bounds equal to the hue layer's region-of-interest
\* bounds, also when HCS is invoked from SheetPlot's channel collapsing on a
\* slice of an overlay.
C10_HcsKeepsHueBoundsAndRoi ==
    hcsOut.kind = "view" =>
        /\ hcsOut.bounds = hcsIn.overlay.data[1].bounds
        /\ hcsOut.roi_bounds = hcsIn.overlay.data[1].roi_bounds

----------------------------------------------------------------------------
(* Renderers.  A stack handed to a renderer is the sequence of its values in *)
(* key order; a value is a view [type, id, layers], id naming its data and   *)
(* layers (of an overlay) the ids of its layers.                             *)

ViewEntry(type, id) == [type |-> type, id |-> id, layers |-> <<>>]
OverlayEntry(ids) == [type |-> "SheetOverlay", id |-> 0, layers |-> ids]

\* what a renderer is constructed from: a stack, or one view that is no stack
PlotArg(isStack, items) == [isStack |-> isStack, items |-> items]

\* Stack.type of the stacks handed to renderers: None when empty
StackType(items) == IF items = <<>> THEN None ELSE Some(items[Len(items)].type)

\* Plot._check_stack(view, element_type): [err, stack].  A view that is no
\* stack becomes the one entry (key 0) of a new stack; issubclass raises
\* TypeError on the type None of an empty stack
Plot_check_stack_untyped(arg, element_type) ==
    LET stk == IF ~arg.isStack THEN <<arg.items[1]>> ELSE arg.items
    IN  [err |-> "", stack |-> stk]
Plot_check_stack(arg, element_type) ==
    LET stk == IF ~arg.isStack THEN <<arg.items[1]>> ELSE arg.items
    IN  IF StackType(stk) = None \/ StackType(stk)[1] # element_type
        THEN [err |-> "TypeError", stack |-> <<>>]
        ELSE [err |-> "", stack |-> stk]

\* Plot.__len__ of a renderer built on a stack
Plot_len(p) == Len(p.stack)

\* Strings are sequences of tokens: l.endswith(p) and k.startswith(l)
EndsWith(l, p) == Len(p) <= Len(l) /\ SubSeq(l, Len(l) - Len(p) + 1, Len(l)) = p
StartsWith(k, l) == Len(l) <= Len(k) /\ SubSeq(k, 1, Len(l)) = l

\* a layer of an overlay: its label, its style key, and the identities of the
\* original layers it was made from
ChannelLayer(label, style, src) == [type |-> "SheetView", label |-> label, style |-> style, src |-> src]
\* overlay[label]: the first layer of that label
LayerByLabel(layers, label) ==
    layers[CHOOSE i \in 1..Len(layers) :
              layers[i].label = label /\ \A j \in 1..(i - 1) : layers[j].label # label]

\* fn(overlay_slice) for fn = channel_modes[mode].instance(): one view made of
\* the layers of the slice
ChannelFn(mode, views) ==
    ChannelLayer(IF mode = "HCS" THEN views[1].label \o <<" HCS Plot">> ELSE <<mode>>, <<>>,
                 [i \in 1..Len(views) |-> views[i].src])

\* the loop of SheetPlot._collapse from index i (from 0) on
RECURSIVE CollapseLoop(_, _, _, _, _, _, _)
CollapseLoop(layers, pattern, mode, style_key, i, skip, collapsed_views) ==
    IF i >= Len(layers) THEN collapsed_views
    ELSE LET layer_labels == [k \in 1..Min(Len(pattern), Len(layers) - i) |-> layers[i + k].label]
             matching == \A k \in 1..Len(layer_labels) : EndsWith(layer_labels[k], pattern[k])
         IN  IF matching /\ Len(layer_labels) = Len(pattern)
             THEN LET views == [k \in 1..Len(layer_labels) |-> LayerByLabel(layers, layer_labels[k])]
                      collapsed_view == [ChannelFn(mode, views) EXCEPT !.style = style_key]
                  IN  CollapseLoop(layers, pattern, mode, style_key, i + 1, Len(views) - 1,
                                   Append(collapsed_views, collapsed_view))
             ELSE IF skip # 0
             THEN CollapseLoop(layers, pattern, mode, style_key, i + 1,
                               IF skip <= 0 THEN 0 ELSE skip - 1, collapsed_views)
             ELSE CollapseLoop(layers, pattern, mode, style_key, i + 1, skip,
                               Append(collapsed_views, layers[i + 1]))

\* SheetPlot._collapse(overlay, pattern, fn, style_key): the overlay afterwards
SheetPlot_collapse(ov, pattern, mode, style_key) ==
    IF Len(pattern) > Len(ov.layers) THEN ov
    ELSE [ov EXCEPT !.layers = CollapseLoop(ov.layers, pattern, mode, style_key, 0, 0, <<>>)]

\* sorted(keys, key=lambda k: -channels[k].size): a stable insertion sort
RECURSIVE SortBySize(_)
SortBySize(ops) ==
    IF ops = <<>> THEN <<>>
    ELSE LET rest == SortBySize(Tail(ops))
             before == SelectSeq(rest, LAMBDA o : o.size > Head(ops).size)
             after == SelectSeq(rest, LAMBDA o : o.size <= Head(ops).size)
         IN  before \o <<Head(ops)>> \o after

\* the operations _collapse_channels applies to one overlay, in order: the
\* customized ones, then all the registered ones
ChannelOrder(ov, channels) ==
    LET customized == SelectSeq(channels,
                                LAMBDA o : ov.label # <<>> /\ StartsWith(o.key, ov.label))
    IN  SortBySize(customized) \o SortBySize(channels)

\* the inner loop of _collapse_channels on one overlay
RECURSIVE CollapseAll(_, _)
CollapseAll(ov, ops) ==
    IF ops = <<>> THEN ov
    ELSE CollapseAll(SheetPlot_collapse(ov, Head(ops).pattern, Head(ops).mode, Head(ops).key),
                     Tail(ops))

\* _collapse_channels working on the stack it was given
SheetPlot_collapse_channels_in_place(stk, channels) ==
    IF StackType(stk) # Some("SheetOverlay") \/ channels = <<>>
    THEN [stack |-> stk, arg |-> stk, same |-> TRUE, log |-> <<>>]
    ELSE LET done == [o \in 1..Len(stk) |-> CollapseAll(stk[o], ChannelOrder(stk[o], channels))]
         IN  [stack |-> done, arg |-> done, same |-> TRUE,
              log |-> [o \in 1..Len(stk) |-> ChannelOrder(stk[o], channels)]]
\* SheetPlot._collapse_channels(stack) under the registry channels: the stack
\* returned, the argument as the caller sees it afterwards, whether the two are
\* one object, and the operations applied to each overlay in order
SheetPlot_collapse_channels(stk, channels) ==
    IF StackType(stk) # Some("SheetOverlay") \/ channels = <<>>
    THEN [stack |-> stk, arg |-> stk, same |-> TRUE, log |-> <<>>]
    ELSE [stack |-> [o \in 1..Len(stk) |->
                        CollapseAll(stk[o], ChannelOrder(stk[o], channels))],
          arg |-> stk, same |-> FALSE,
          log |-> [o \in 1..Len(stk) |-> ChannelOrder(stk[o], channels)]]

\* the registry without an entry
NoChannels == <<>>

\* SheetViewPlot.__init__(sheetview, zorder)
SheetViewPlot_init(arg, zorder) ==
    LET r == Plot_check_stack(arg, "SheetView")
    IN  [err |-> r.err,
         self |-> [IdlePlot EXCEPT !.kind = "SheetViewPlot", !.fromStack = arg.isStack,
                                   !.stack = r.stack, !.zorder = zorder]]

\* SheetPlot.__init__(overlays) under the registry channels: the renderer, and
\* from _collapse_channels the argument afterwards and the operations applied
SheetPlot_init_with(arg, channels) ==
    LET r == Plot_check_stack(arg, "SheetOverlay")
        c == SheetPlot_collapse_channels(r.stack, channels)
    IN  [err |-> r.err,
         self |-> [IdlePlot EXCEPT !.kind = "SheetPlot", !.fromStack = arg.isStack,
                                   !.stack = c.stack],
         arg |-> c.arg, same |-> c.same, log |-> c.log]
\* SheetPlot.__init__(overlays) while no channel operation is registered
SheetPlot_init(arg) ==
    LET r == SheetPlot_init_with(arg, NoChannels)
    IN  [err |-> r.err, self |-> r.self]

\* an axis of figure f and the figure f itself; figure 0 belongs to the caller
Axis(f) == [kind |-> "axis", fig |-> f]
Figure(f) == [kind |-> "figure", fig |-> f]

\* Plot._axis(axis): without an axis a new figure is made, kept in
\* handles['fig'], and its one subplot is the axis: [self, ax, figs]
Plot_axis(p, axis, fg) ==
    IF axis = None
    THEN LET f == fg.created + 1
         IN  [self |-> [p EXCEPT !.fig = Some(f)], ax |-> Axis(f),
              figs |-> [fg EXCEPT !.created = f]]
    ELSE [self |-> p, ax |-> axis[1], figs |-> fg]

\* the last two lines of __call__: the figure made for the call is closed, and
\* the axis given or that figure is returned: [self, ret, figs]
Plot_return(p, axis, ax, fg) ==
    [self |-> p,
     ret |-> IF axis # None THEN Some(ax) ELSE Some(Figure(p.fig[1])),
     figs |-> IF axis = None THEN [fg EXCEPT !.closed = @ \cup {p.fig[1]}] ELSE fg]

\* SheetViewPlot.__call__(axis): the image shows the top of the stack
SheetViewPlot_call(p, axis, fg) ==
    LET a == Plot_axis(p, axis, fg)
        q == [a.self EXCEPT !.drawn = TRUE, !.im = p.stack[Len(p.stack)].id,
                            !.ax = Some(a.ax)]
    IN  Plot_return(q, axis, a.ax, a.figs)

\* SheetViewPlot.update_frame(n): [err, self]
SheetViewPlot_update_frame_unclamped(p, n) ==
    IF n < Len(p.stack) THEN [err |-> "", self |-> [p EXCEPT !.im = p.stack[n + 1].id]]
    ELSE [err |-> "IndexError", self |-> p]
SheetViewPlot_update_frame(p, n) ==
    LET m == IF n < Plot_len(p) THEN n ELSE Plot_len(p) - 1
    IN  [err |-> "", self |-> [p EXCEPT !.im = p.stack[m + 1].id]]

\* Stack.split() of a stack of overlays: one stack per layer, each holding
\* that layer of every overlay
Stack_split(stk) ==
    [j \in 1..Len(stk[Len(stk)].layers) |->
        [f \in 1..Len(stk) |-> ViewEntry("SheetView", stk[f].layers[j])]]

\* the loop of SheetPlot.__call__: a child renderer per split stack, with the
\* position in the overlay as its zorder, drawn and appended to self.plots
SheetPlot_call_one_zorder(p, axis, fg) ==
    LET a == Plot_axis(p, axis, fg)
        stacks == Stack_split(p.stack)
        children == [j \in 1..Len(stacks) |->
                        SheetViewPlot_call(SheetViewPlot_init(PlotArg(TRUE, stacks[j]), 0).self,
                                           Some(a.ax), a.figs).self]
        q == [a.self EXCEPT !.drawn = TRUE, !.plots = p.plots \o children, !.ax = Some(a.ax)]
    IN  Plot_return(q, axis, a.ax, a.figs)
SheetPlot_call(p, axis, fg) ==
    LET a == Plot_axis(p, axis, fg)
        stacks == Stack_split(p.stack)
        children == [j \in 1..Len(stacks) |->
                        SheetViewPlot_call(SheetViewPlot_init(PlotArg(TRUE, stacks[j]), j - 1).self,
                                           Some(a.ax), a.figs).self]
        q == [a.self EXCEPT !.drawn = TRUE, !.plots = p.plots \o children, !.ax = Some(a.ax)]
    IN  Plot_return(q, axis, a.ax, a.figs)

\* update_frame of every renderer of a sequence, in order; calls lists the
\* zorder of the renderers in the order they were called: [err, plots, calls]
RECURSIVE UpdateAll(_, _)
UpdateAll(plots, n) ==
    IF plots = <<>> THEN [err |-> "", plots |-> <<>>, calls |-> <<>>]
    ELSE LET r == SheetViewPlot_update_frame(Head(plots), n)
             called == <<Head(plots).zorder>>
         IN  IF r.err # ""
             THEN [err |-> r.err, plots |-> <<r.self>> \o Tail(plots), calls |-> called]
             ELSE LET rest == UpdateAll(Tail(plots), n)
                  IN  [err |-> rest.err, plots |-> <<r.self>> \o rest.plots,
                       calls |-> called \o rest.calls]

\* SheetPlot.update_frame(n)
SheetPlot_update_frame(p, n) ==
    LET m == IF n < Plot_len(p) THEN n ELSE Plot_len(p) - 1
        r == UpdateAll(p.plots, m)
    IN  [err |-> r.err, self |-> [p EXCEPT !.plots = r.plots, !.calls = r.calls]]

\* LayoutPlot.layout_dict
layout_dict ==
    [Single |-> [shape |-> <<1, 1>>, width_ratios |-> <<4>>, height_ratios |-> <<4>>,
                 layout |-> <<"main">>],
     Dual |-> [shape |-> <<1, 2>>, width_ratios |-> <<4, 1>>, height_ratios |-> <<4>>,
               layout |-> <<"main", "right">>],
     Triple |-> [shape |-> <<2, 2>>, width_ratios |-> <<4, 1>>, height_ratios |-> <<1, 4>>,
                 layout |-> <<"top", "", "main", "right">>],
     EmbeddedDual |-> [shape |-> <<2, 1>>, width_ratios |-> <<4>>, height_ratios |-> <<1, 4>>,
                       layout |-> <<"", "main">>]]

\* LayoutPlot._set_layout(embedded_type): the layout type, by the number of
\* views of the layout unless an embedded type is given
LayoutPlot_set_layout(n, embedded_type) ==
    IF embedded_type # None THEN embedded_type[1]
    ELSE IF n = 1 THEN "Single"
    ELSE IF n = 2 THEN "Dual"
    ELSE "Triple"

\* a layout: the views by position, [pos, arg], main first
LayoutGet(layout, pos) == SelectSeq(layout, LAMBDA e : e.pos = pos)

\* LayoutPlot.__init__(layout)
LayoutPlot_init(layout) ==
    [IdlePlot EXCEPT !.kind = "LayoutPlot", !.layout = layout,
                     !.layout_type = LayoutPlot_set_layout(Len(layout), None)]

\* LayoutPlot.__call__(subaxes): a child renderer for every slot of the
\* layout type that has a view, drawn on the axis of the slot
\* Only the slots that zip(subaxes, layout_spec) pairs with an axis are drawn;
\* the call makes no figure and has no return statement: [self, ret, figs]
LayoutPlot_call(p, subaxes, fg) ==
    LET layout_spec == layout_dict[p.layout_type].layout
        paired == [i \in 1..Min(Len(subaxes), Len(layout_spec)) |-> i]
        slots == SelectSeq(paired, LAMBDA i : /\ layout_spec[i] # ""
                                              /\ LayoutGet(p.layout, layout_spec[i]) # <<>>)
        subplots == [i \in 1..Len(slots) |->
                        [SheetViewPlot_call(
                             SheetViewPlot_init(LayoutGet(p.layout, layout_spec[slots[i]])[1].arg,
                                                0).self,
                             Some(subaxes[slots[i]]), fg).self
                         EXCEPT !.pos = layout_spec[slots[i]]]]
    IN  [self |-> [p EXCEPT !.drawn = TRUE, !.plots = subplots,
                            !.ax = IF subaxes = <<>> THEN None ELSE Some(subaxes[1])],
         ret |-> None, figs |-> fg]

\* LayoutPlot.__len__: the longest stack of the layout, 1 if it holds none
SeqMax(q) == IF q = <<>> THEN 0
             ELSE CHOOSE m \in {q[i] : i \in 1..Len(q)} : \A i \in 1..Len(q) : q[i] <= m
LayoutPlot_len(p) ==
    LET stacks == SelectSeq(p.layout, LAMBDA e : e.arg.isStack)
    IN  Max(SeqMax([i \in 1..Len(stacks) |-> Len(stacks[i].arg.items)]), 1)

\* LayoutPlot.update_frame(n): n is handed to every child as it is
LayoutPlot_update_frame(p, n) ==
    LET r == UpdateAll(p.plots, n)
    IN  [err |-> r.err, self |-> [p EXCEPT !.plots = r.plots, !.calls = r.calls]]

\* len(plot) and plot.update_frame(n) by the class of the renderer
FrameCount(p) == IF p.kind = "LayoutPlot" THEN LayoutPlot_len(p) ELSE Plot_len(p)
UpdateFrameOf(p, n) ==
    CASE p.kind = "SheetViewPlot" -> SheetViewPlot_update_frame(p, n)
      [] p.kind = "SheetPlot" -> SheetPlot_update_frame(p, n)
      [] p.kind = "LayoutPlot" -> LayoutPlot_update_frame(p, n)

----------------------------------------------------------------------------
(* Spec: renderers are constructed, drawn and set to frames *)

\* the view of frame f (from 1) of layer j: its data is named 10*f + j
FrameView(type, f, j) == ViewEntry(type, 10 * f + j)
ViewStack(type, len) == [f \in 1..len |-> FrameView(type, f, 1)]
OverlayStack(len, k) == [f \in 1..len |-> OverlayEntry([j \in 1..k |-> 10 * f + j])]

\* what a SheetViewPlot is constructed from: a view, or a stack of views or of
\* points, also an empty one
ViewArgs == {PlotArg(FALSE, ViewStack("SheetView", 1))}
            \cup {PlotArg(TRUE, ViewStack(ty, len)) :
                     ty \in {"SheetView", "SheetPoints"}, len \in 0..MaxFrames}
\* what a SheetPlot is constructed from: an overlay of k layers, or a stack of
\* such overlays or of views, also an empty one
OverlayArgs == {PlotArg(FALSE, OverlayStack(1, k)) : k \in 1..2}
               \cup {PlotArg(TRUE, OverlayStack(len, k)) : len \in 0..MaxFrames, k \in 1..2}
               \cup {PlotArg(TRUE, ViewStack("SheetView", 1))}
\* the layouts: main alone, or with top, right or both; each a view or a stack
SlotArgs == {PlotArg(FALSE, ViewStack("SheetView", 1))}
            \cup {PlotArg(TRUE, ViewStack("SheetView", len)) : len \in 1..MaxFrames}
Layouts == {<<[pos |-> "main", arg |-> a]>> : a \in SlotArgs}
           \cup {<<[pos |-> "main", arg |-> a], [pos |-> q, arg |-> b]>> :
                    a \in SlotArgs, b \in SlotArgs, q \in {"top", "right"}}
           \cup {<<[pos |-> "main", arg |-> a], [pos |-> "top", arg |-> b],
                    [pos |-> "right", arg |-> c]>> :
                    a \in SlotArgs, b \in SlotArgs, c \in {PlotArg(TRUE, ViewStack("SheetView", 2))}}

Init == SliceIdle /\ OverlayIdle /\ StackIdle /\ HcsIdle /\ PlotIdle /\ ExtIdle

Others == <<view, result, overlay, ovRes, stack, stRes, hcsIn, hcsOut, ext>>

\* SheetViewPlot(arg): a failed construction leaves no renderer
NewSheetViewPlot(arg) ==
    LET r == SheetViewPlot_init(arg, 0)
    IN  /\ plot.kind = "none"
        /\ plot' = IF r.err = "" THEN r.self ELSE plot
        /\ plotRes' = [op |-> "construct", err |-> r.err, n |-> 0, given |-> Len(arg.items),
                       axis |-> None, ret |-> None, before |-> figs,
                       warned |-> FALSE]
        /\ UNCHANGED figs
        /\ UNCHANGED Others

\* SheetPlot(arg)
NewSheetPlot(arg) ==
    LET r == SheetPlot_init(arg)
    IN  /\ plot.kind = "none"
        /\ plot' = IF r.err = "" THEN r.self ELSE plot
        /\ plotRes' = [op |-> "construct", err |-> r.err, n |-> 0, given |-> Len(arg.items),
                       axis |-> None, ret |-> None, before |-> figs,
                       warned |-> FALSE]
        /\ UNCHANGED figs
        /\ UNCHANGED Others

\* LayoutPlot(layout)
NewLayoutPlot(layout) ==
    /\ plot.kind = "none"
    /\ plot' = LayoutPlot_init(layout)
    /\ plotRes' = [op |-> "construct", err |-> "", n |-> 0, given |-> Len(layout),
                   axis |-> None, ret |-> None, before |-> figs,
                       warned |-> FALSE]
    /\ UNCHANGED figs
    /\ UNCHANGED Others

\* the axes a caller hands to a LayoutPlot: one for every slot of its layout
\* type when it draws into a figure of its own, none by default
Subaxes(p, axis) ==
    IF axis = None THEN <<>>
    ELSE [i \in 1..Len(layout_dict[p.layout_type].layout) |-> axis[1]]

\* plot(axis): the initial render, which may be repeated; without an axis for
\* as long as fewer than MaxFigs figures were made
Draw(axis) ==
    LET r == CASE plot.kind = "SheetViewPlot" -> SheetViewPlot_call(plot, axis, figs)
               [] plot.kind = "SheetPlot" -> SheetPlot_call(plot, axis, figs)
               [] plot.kind = "LayoutPlot" -> LayoutPlot_call(plot, Subaxes(plot, axis), figs)
    IN  /\ plot.kind # "none"
        /\ Len(plot.plots) <= MaxChildren
        /\ axis = None => figs.created < MaxFigs
        /\ plot' = r.self
        /\ figs' = r.figs
        /\ plotRes' = [op |-> "call", err |-> "", n |-> 0, given |-> 0,
                       axis |-> axis, ret |-> r.ret, before |-> figs,
                       warned |-> FALSE]
        /\ UNCHANGED Others

\* plot.update_frame(n) on a renderer that has been drawn
UpdateFrame(n) ==
    LET r == UpdateFrameOf(plot, n)
    IN  /\ plot.drawn
        /\ plot' = r.self
        /\ plotRes' = [op |-> "update_frame", err |-> r.err, n |-> n, given |-> 0,
                       axis |-> None, ret |-> None, before |-> figs,
                       warned |-> FALSE]
        /\ UNCHANGED figs
        /\ UNCHANGED Others

\* the initial render of a renderer without an axis: [self, ret, figs]
CallOf(p, fg) ==
    CASE p.kind = "SheetViewPlot" -> SheetViewPlot_call(p, None, fg)
      [] p.kind = "SheetPlot" -> SheetPlot_call(p, None, fg)
      [] p.kind = "LayoutPlot" -> LayoutPlot_call(p, <<>>, fg)

\* Plot.__getitem__(frame): [err, self, ret, figs, warned]
Plot_getitem(p, frame, fg) ==
    LET d == CallOf(p, fg)
        u == UpdateFrameOf(d.self, frame)
    IN  [err |-> u.err, self |-> u.self, ret |-> d.ret, figs |-> d.figs,
         warned |-> frame > FrameCount(p)]

\* plot[frame]
GetFrame(frame) ==
    LET r == Plot_getitem(plot, frame, figs)
    IN  /\ plot.kind # "none"
        /\ Len(plot.plots) <= MaxChildren
        /\ figs.created < MaxFigs
        /\ plot' = r.self
        /\ figs' = r.figs
        /\ plotRes' = [op |-> "getitem", err |-> r.err, n |-> frame, given |-> FrameCount(plot),
                       axis |-> None, ret |-> r.ret, before |-> figs, warned |-> r.warned]
        /\ UNCHANGED Others

\* the program adds an entry to the stack the renderer was given, which the
\* renderer shares
StackGrow ==
    LET f == Len(plot.stack) + 1
        top == plot.stack[Len(plot.stack)]
    IN  /\ plot.kind \in {"SheetViewPlot", "SheetPlot"}
        /\ plot.fromStack
        /\ Len(plot.stack) < MaxFrames
        /\ plot' = [plot EXCEPT !.stack =
                        Append(plot.stack,
                               IF top.type = "SheetOverlay"
                               THEN OverlayEntry([j \in 1..Len(top.layers) |-> 10 * f + j])
                               ELSE FrameView(top.type, f, 1))]
        /\ plotRes' = [op |-> "grow", err |-> "", n |-> 0, given |-> 0,
                       axis |-> None, ret |-> None, before |-> figs,
                       warned |-> FALSE]
        /\ UNCHANGED figs
        /\ UNCHANGED Others

Next ==
    \/ \E arg \in ViewArgs : NewSheetViewPlot(arg)
    \/ \E arg \in OverlayArgs : NewSheetPlot(arg)
    \/ \E layout \in Layouts : NewLayoutPlot(layout)
    \/ \E axis \in {None, Some(Axis(0))} : Draw(axis)
    \/ \E n \in 0..(MaxFrames + 2) : UpdateFrame(n)
    \/ \E frame \in 0..(MaxFrames + 2) : GetFrame(frame)
    \/ StackGrow

Spec == Init /\ [][Next]_vars

\* C1: for every renderer built on a stack, the frame count equals the number
\* of entries in its underlying stack; a renderer constructed from a single
\* non-stacked view wraps it in a one-entry stack and has frame count exactly
\* 1, so the frame count is never below 1.
C1_FrameCountIsStackLength ==
    plot.kind \in {"SheetViewPlot", "SheetPlot"} =>
        /\ FrameCount(plot) = Len(plot.stack)
        /\ FrameCount(plot) >= 1
        /\ ~plot.fromStack => FrameCount(plot) = 1
        /\ plotRes.op = "construct" => FrameCount(plot) = plotRes.given

\* a renderer was built on a stack of several overlays
C1_Witness ==
    /\ plot.kind = "SheetPlot" /\ plot.fromStack /\ FrameCount(plot) >= 2
    /\ plotRes.op = "construct"

----------------------------------------------------------------------------
(* Channel split and recombination.  An array view of dataviews holds a 2-D *)
(* array (depth 1: each cell a value) or a 3-D one (depth 3 or 4: each cell *)
(* the tuple of its channel values).                                         *)

ChanMax == 1       \* channel values range over 0..ChanMax
ChanCols == 2      \* a channel array has one row of ChanCols cells

\* an array of the given depth; depth 0 is a 2-D array
Array3(rows, cols, depth, f) == [rows |-> rows, cols |-> cols, depth |-> depth, cells |-> f]
\* numpy: data[:, :, i] for a zero-based i
ChannelOf(a, i) == Array3(a.rows, a.cols, 0, [rc \in DOMAIN a.cells |-> a.cells[rc][i + 1]])
\* numpy.dstack of a sequence of 2-D arrays of one shape
dstack(arrays) ==
    Array3(arrays[1].rows, arrays[1].cols, Len(arrays),
           [rc \in DOMAIN arrays[1].cells |-> [i \in 1..Len(arrays) |-> arrays[i].cells[rc]]])

\* SheetView of dataviews: depth and mode follow the array's third dimension
DataView(data, bounds, label) ==
    [data |-> data, bounds |-> bounds, label |-> label,
     depth |-> IF data.depth = 0 THEN 1 ELSE data.depth,
     mode |-> IF data.depth = 3 THEN "rgb" ELSE IF data.depth = 4 THEN "rgba" ELSE "cmap"]

\* 'RGBA'[i]
ChannelLetter(i) == <<"R", "G", "B", "A">>[i + 1]

\* split that returns the colour channels only
split_process_rgb_only(sheetview) ==
    IF sheetview.mode \notin {"rgb", "rgba"} THEN [err |-> "Exception", views |-> <<>>]
    ELSE [err |-> "",
          views |-> [k \in 1..3 |->
                        DataView(ChannelOf(sheetview.data, k - 1), sheetview.bounds,
                                 ChannelLetter(k - 1))]]
\* split._process: one view per channel, in channel order
split_process(sheetview) ==
    IF sheetview.mode \notin {"rgb", "rgba"} THEN [err |-> "Exception", views |-> <<>>]
    ELSE [err |-> "",
          views |-> [k \in 1..sheetview.depth |->
                        DataView(ChannelOf(sheetview.data, k - 1), sheetview.bounds,
                                 ChannelLetter(k - 1))]]

\* the RGBA channel operation on an overlay of three or four channel views:
\* the view whose channels are the layers' arrays in layer order
RGBA_process(layers, bounds) ==
    IF Len(layers) \notin {3, 4} THEN [err |-> "Exception", view |-> <<>>]
    ELSE [err |-> "",
          view |-> DataView(dstack([i \in 1..Len(layers) |-> layers[i].data]), bounds, "RGBA")]

----------------------------------------------------------------------------
(* SpecRGBA: a view is made, split into channels and recombined *)

ChannelDepths == {1, 3, 4}
ChannelArrays(depth) ==
    IF depth = 1
    THEN {Array3(1, ChanCols, 0, f) : f \in [(1..1) \X (1..ChanCols) -> 0..ChanMax]}
    ELSE {Array3(1, ChanCols, depth, f) :
             f \in [(1..1) \X (1..ChanCols) -> [1..depth -> 0..ChanMax]]}

RgbaOthers == <<core, grid, chan, annot, late>>
RgbaInit == SliceIdle /\ OverlayIdle /\ StackIdle /\ HcsIdle /\ PlotIdle /\ ExtIdle

\* SheetView(data, bounds)
RgbaView(data, bounds) ==
    /\ rgba.phase = "none"
    /\ rgba' = [rgba EXCEPT !.phase = "view", !.src = DataView(data, bounds, "")]
    /\ UNCHANGED RgbaOthers

\* split(view)
RgbaSplit ==
    /\ rgba.phase = "view"
    /\ LET r == split_process(rgba.src)
       IN  rgba' = [rgba EXCEPT !.phase = "split", !.parts = r.views, !.err = r.err]
    /\ UNCHANGED RgbaOthers

\* RGBA(r * g * b * a) on the channels in the order split returned them
RgbaJoin ==
    /\ rgba.phase = "split" /\ rgba.err = ""
    /\ LET r == RGBA_process(rgba.parts, rgba.parts[1].bounds)
       IN  rgba' = [rgba EXCEPT !.phase = "joined", !.out = r.view, !.err = r.err]
    /\ UNCHANGED RgbaOthers

RgbaNext ==
    \/ \E d \in ChannelDepths, bb \in LayerBounds : \E data \in ChannelArrays(d) : RgbaView(data, bb)
    \/ RgbaSplit
    \/ RgbaJoin

SpecRGBA == RgbaInit /\ [][RgbaNext]_vars

----------------------------------------------------------------------------
(* GridLayoutPlot: a grid of layouts packed into one grid specification.  A *)
(* cell of the grid is the number of views of its layout; coordinates and   *)
(* grid-specification indices count from 0 as in the code.                  *)

GridRows == 2      \* a grid has 1..GridRows rows
GridCols == 2      \* a grid has 1..GridCols columns

\* a dictionary: a function on the keys it holds
EmptyDict == [k \in {} |-> 0]
DictGet(d, k, default) == IF k \in DOMAIN d THEN d[k] ELSE default
DictPut(d, k, v) == [x \in (DOMAIN d) \cup {k} |-> IF x = k THEN v ELSE d[x]]

\* [(r, c) for r in range(rows) for c in range(cols)]
GridCoords(rows, cols) == [k \in 1..(rows * cols) |-> <<(k - 1) \div cols, (k - 1) % cols>>]

\* the template LayoutPlot(layout_view) takes for a layout of n views
LayoutInfo(n) == layout_dict[LayoutPlot_set_layout(n, None)]

\* the first loop of _compute_gridspecs: the ratios kept per row and column
RECURSIVE RatioLoop(_, _, _, _)
RatioLoop(cells, coords, row_heightratios, col_widthratios) ==
    IF coords = <<>>
    THEN [row_heightratios |-> row_heightratios, col_widthratios |-> col_widthratios]
    ELSE LET r == Head(coords)[1]
             c == Head(coords)[2]
             layout == LayoutInfo(cells[Head(coords)])
             rh == IF layout.shape[1] > DictGet(row_heightratios, r, <<0, None>>)[1]
                   THEN DictPut(row_heightratios, r, <<layout.shape[2], layout.height_ratios>>)
                   ELSE row_heightratios
             cw == IF layout.shape[2] > DictGet(col_widthratios, c, <<0, None>>)[1]
                   THEN DictPut(col_widthratios, c, <<layout.shape[1], layout.width_ratios>>)
                   ELSE col_widthratios
         IN  RatioLoop(cells, Tail(coords), rh, cw)

\* [v[1] for k, v in sorted(d.items())] for a dictionary on the keys 0..n-1
SortedValues(d) == [i \in 1..Cardinality(DOMAIN d) |-> d[i - 1][2]]
\* [x for xs in lists for x in xs]
RECURSIVE Flatten(_)
Flatten(lists) == IF lists = <<>> THEN <<>> ELSE Head(lists) \o Flatten(Tail(lists))

\* grid_situate that never skips the bottom row of a two-row layout
grid_situate_no_row_skip(current_idx, layout_type, subgrid_width) ==
    LET bottom_idx == current_idx + subgrid_width
    IN  CASE layout_type = "Single" -> [next |-> current_idx + 1, inds |-> <<current_idx>>]
          [] layout_type = "Dual" ->
                [next |-> current_idx + 2, inds |-> <<current_idx, current_idx + 1>>]
          [] layout_type = "EmbeddedDual" ->
                [next |-> current_idx + 1, inds |-> <<current_idx, bottom_idx>>]
          [] layout_type = "Triple" ->
                [next |-> current_idx + 2,
                 inds |-> <<current_idx, current_idx + 1, bottom_idx, bottom_idx + 1>>]
\* LayoutPlot.grid_situate(current_idx, layout_type, subgrid_width): the next
\* free index and the indices taken
grid_situate(current_idx, layout_type, subgrid_width) ==
    LET bottom_idx == current_idx + subgrid_width
    IN  CASE layout_type = "Single" -> [next |-> current_idx + 1, inds |-> <<current_idx>>]
          [] layout_type = "Dual" ->
                [next |-> current_idx + 2, inds |-> <<current_idx, current_idx + 1>>]
          [] layout_type = "EmbeddedDual" ->
                [next |-> IF (current_idx + 1) % subgrid_width = 0
                          THEN bottom_idx + 1 ELSE current_idx + 1,
                 inds |-> <<current_idx, bottom_idx>>]
          [] layout_type = "Triple" ->
                [next |-> IF (current_idx + 2) % subgrid_width = 0
                          THEN bottom_idx + 2 ELSE current_idx + 2,
                 inds |-> <<current_idx, current_idx + 1, bottom_idx, bottom_idx + 1>>]

\* the embedded layout type of the cell (r, c)
EmbeddedType(width_ratios, height_ratios, r, c) ==
    IF Len(width_ratios[c + 1]) > 1 /\ Len(height_ratios[r + 1]) > 1 THEN "Triple"
    ELSE IF Len(height_ratios[r + 1]) > 1 THEN "EmbeddedDual"
    ELSE IF Len(width_ratios[c + 1]) > 1 THEN "Dual"
    ELSE "Single"

\* the second loop of _compute_gridspecs: gidx threaded through grid_situate
RECURSIVE SituateLoop(_, _, _, _, _, _, _)
SituateLoop(coords, gidx, types, specs, width_ratios, height_ratios, cols) ==
    IF coords = <<>> THEN [gidx |-> gidx, types |-> types, subplot_specs |-> specs]
    ELSE LET rc == Head(coords)
             layout_type == EmbeddedType(width_ratios, height_ratios, rc[1], rc[2])
             s == grid_situate(gidx, layout_type, cols)
         IN  SituateLoop(Tail(coords), s.next, DictPut(types, rc, layout_type),
                         DictPut(specs, rc, s.inds), width_ratios, height_ratios, cols)

\* GridLayoutPlot.__init__(grid) with _compute_gridspecs
GridLayoutPlot_init(shape, cells) ==
    LET coords == GridCoords(shape[1], shape[2])
        ratios == RatioLoop(cells, coords, EmptyDict, EmptyDict)
        width_ratios == SortedValues(ratios.col_widthratios)
        height_ratios == SortedValues(ratios.row_heightratios)
        wr_list == Flatten(width_ratios)
        hr_list == Flatten(height_ratios)
        sit == SituateLoop(coords, 0, EmptyDict, EmptyDict, width_ratios, height_ratios,
                           Len(wr_list))
    IN  [phase |-> "built", shape |-> shape, cells |-> cells,
         width_ratios |-> width_ratios, height_ratios |-> height_ratios,
         wr_list |-> wr_list, hr_list |-> hr_list,
         rows |-> Len(hr_list), cols |-> Len(wr_list),
         types |-> sit.types, subplot_specs |-> sit.subplot_specs, gidx |-> sit.gidx]

----------------------------------------------------------------------------
(* SpecGrid: a GridLayoutPlot is constructed on a grid of layouts *)

GridShapes == (1..GridRows) \X (1..GridCols)
\* the grids of a shape: a layout of one to three views in every cell
Grids(shape) == [(0..(shape[1] - 1)) \X (0..(shape[2] - 1)) -> 1..3]

GridOthers == <<core, rgba, chan, annot, late>>
GridInit == SliceIdle /\ OverlayIdle /\ StackIdle /\ HcsIdle /\ PlotIdle /\ ExtIdle

\* GridLayoutPlot(grid)
NewGridLayoutPlot(shape, cells) ==
    /\ grid.phase = "none"
    /\ grid' = GridLayoutPlot_init(shape, cells)
    /\ UNCHANGED GridOthers

GridNext ==
    \E shape \in GridShapes : \E cells \in Grids(shape) : NewGridLayoutPlot(shape, cells)

SpecGrid == GridInit /\ [][GridNext]_vars

\* the largest of a non-empty set of numbers
SetMax(S) == CHOOSE m \in S : \A x \in S : x <= m
\* the number of rows and of columns of the layout in the cell rc
CellShape(rc) == LayoutInfo(grid.cells[rc]).shape

\* C12: for a grid of layouts of shapes 1x1, 1x2 or 2x2, each grid row has the
\* height ratios of the tallest layout in that row and each grid column the
\* width ratios of the widest layout in that column, whatever the order of the
\* cells; the concatenated ratio lists are as long as the grid specification
\* has rows and columns.
C12_RatiosOfTallestAndWidest ==
    grid.phase = "built" =>
        /\ \A r \in 0..(grid.shape[1] - 1) :
              \E c \in 0..(grid.shape[2] - 1) :
                 /\ CellShape(<<r, c>>)[1] =
                       SetMax({CellShape(<<r, k>>)[1] : k \in 0..(grid.shape[2] - 1)})
                 /\ grid.height_ratios[r + 1] = LayoutInfo(grid.cells[<<r, c>>]).height_ratios
        /\ \A c \in 0..(grid.shape[2] - 1) :
              \E r \in 0..(grid.shape[1] - 1) :
                 /\ CellShape(<<r, c>>)[2] =
                       SetMax({CellShape(<<k, c>>)[2] : k \in 0..(grid.shape[1] - 1)})
                 /\ grid.width_ratios[c + 1] = LayoutInfo(grid.cells[<<r, c>>]).width_ratios
        /\ Len(grid.hr_list) = grid.rows
        /\ Len(grid.wr_list) = grid.cols

\* the indices a sequence of index lists holds, and how many entries it has
IndexSet(rc) == {grid.subplot_specs[rc][i] : i \in 1..Len(grid.subplot_specs[rc])}

\* C13: with the running index threaded through grid_situate over all cells in
\* row-major order, the index lists of different cells are pairwise disjoint,
\* every index lies in [0, rows*cols) of the grid specification, and together
\* the lists cover every index of the grid specification exactly once.
C13_SituateCoversGridOnce ==
    grid.phase = "built" =>
        /\ \A rc \in DOMAIN grid.subplot_specs :
              /\ IndexSet(rc) \subseteq 0..(grid.rows * grid.cols - 1)
              /\ Cardinality(IndexSet(rc)) = Len(grid.subplot_specs[rc])
        /\ \A rc1, rc2 \in DOMAIN grid.subplot_specs :
              rc1 # rc2 => IndexSet(rc1) \cap IndexSet(rc2) = {}
        /\ UNION {IndexSet(rc) : rc \in DOMAIN grid.subplot_specs}
              = 0..(grid.rows * grid.cols - 1)
        /\ grid.gidx = grid.rows * grid.cols

\* a grid of two rows whose upper row holds a two-row layout beside a one-row
\* one was packed
C13_Witness ==
    /\ grid.phase = "built" /\ grid.shape = <<2, 2>>
    /\ grid.types[<<0, 0>>] = "EmbeddedDual" /\ grid.types[<<0, 1>>] = "Triple"
    /\ grid.types[<<1, 0>>] = "Single"

----------------------------------------------------------------------------
(* Claims about the layout composer, in Spec *)

\* C14: for every layout of main plus any subset of {top, right}, the template
\* selected has a slot for every sub-panel present, so that every present
\* sub-panel is drawn; its slot list has shape[0]*shape[1] entries and its
\* width and height ratio lists have shape[1] and shape[0] entries.
C14_TemplateHasSlotForEveryPanel ==
    plot.kind = "LayoutPlot" =>
        LET info == layout_dict[plot.layout_type]
        IN  /\ \A i \in 1..Len(plot.layout) :
                  \E k \in 1..Len(info.layout) : info.layout[k] = plot.layout[i].pos
            /\ (plot.drawn /\ plot.ax # None) =>
                  \A i \in 1..Len(plot.layout) :
                     \E j \in 1..Len(plot.plots) : plot.plots[j].pos = plot.layout[i].pos
            /\ Len(info.layout) = info.shape[1] * info.shape[2]
            /\ Len(info.width_ratios) = info.shape[2]
            /\ Len(info.height_ratios) = info.shape[1]

----------------------------------------------------------------------------
(* SpecChannels: channel operations are registered, then a SheetPlot is     *)
(* constructed on an overlay or a stack of overlays                         *)

MaxOps == 2        \* the registry holds at most MaxOps channel operations

\* a registry entry: channels[key] with its pattern (split at the wildcard),
\* its size and its mode
ChannelOp(key, pattern, mode) ==
    [key |-> key, pattern |-> pattern, size |-> Len(pattern), mode |-> mode]
PatternRG == <<<<"R">>, <<"G">>>>
PatternRGB == <<<<"R">>, <<"G">>, <<"B">>>>
ChannelOps == {ChannelOp(<<"RGB">>, PatternRGB, "RGBA"), ChannelOp(<<"RG">>, PatternRG, "HCS"),
               ChannelOp(<<"X", "RGB">>, PatternRGB, "RGBA"),
               ChannelOp(<<"X", "RG">>, PatternRG, "HCS")}

\* the overlay of frame f: a label and two or three layers labelled by channel
LabelledOverlay(label, n, f) ==
    [type |-> "SheetOverlay", label |-> label,
     layers |-> [j \in 1..n |->
                    ChannelLayer(<<"a", <<"R", "G", "B">>[j]>>, <<>>, <<10 * f + j>>)]]
LabelledStack(label, n, len) == [f \in 1..len |-> LabelledOverlay(label, n, f)]
ChannelArgs ==
    {PlotArg(FALSE, LabelledStack(l, n, 1)) : l \in {<<>>, <<"X">>}, n \in 2..3}
    \cup {PlotArg(TRUE, LabelledStack(l, n, len)) :
             l \in {<<>>, <<"X">>}, n \in 2..3, len \in 1..MaxFrames}
    \cup {PlotArg(TRUE, ViewStack("SheetView", 1))}

ChanOthers == <<core, rgba, grid, annot, late>>
ChanInit == SliceIdle /\ OverlayIdle /\ StackIdle /\ HcsIdle /\ PlotIdle /\ ExtIdle

\* channels[key] = op
Register(op) ==
    /\ chan.phase = "none"
    /\ Len(chan.channels) < MaxOps
    /\ \A i \in 1..Len(chan.channels) : chan.channels[i].key # op.key
    /\ chan' = [chan EXCEPT !.channels = Append(@, op)]
    /\ UNCHANGED ChanOthers

\* SheetPlot(arg) under the registry
ChanNewSheetPlot(arg) ==
    /\ chan.phase = "none"
    /\ LET r == SheetPlot_init_with(arg, chan.channels)
       IN  chan' = IF r.err # "" THEN [chan EXCEPT !.phase = "failed", !.before = arg.items,
                                                   !.input = arg.items]
                   ELSE [chan EXCEPT !.phase = "built", !.before = arg.items, !.input = r.arg,
                                     !.stack = r.self.stack, !.log = r.log, !.same = r.same]
    /\ UNCHANGED ChanOthers

ChanNext ==
    \/ \E op \in ChannelOps : Register(op)
    \/ \E arg \in ChannelArgs : ChanNewSheetPlot(arg)

SpecChannels == ChanInit /\ [][ChanNext]_vars

\* C15: constructing a SheetPlot never alters the stack passed in: afterwards
\* its overlays hold the same layers, in the same order and with the same
\* style keys, whether or not channel operations are registered; when none is
\* registered the renderer's stack is the input stack unchanged.
C15_InputStackUntouched ==
    chan.phase \in {"built", "failed"} =>
        /\ chan.input = chan.before
        /\ (chan.phase = "built" /\ chan.channels = <<>>) =>
              chan.stack = chan.before /\ chan.same

\* a renderer was built under a registry whose operations collapsed layers of
\* the overlays of a stack of several frames
C15_Witness ==
    /\ chan.phase = "built" /\ chan.channels # <<>>
    /\ Len(chan.before) >= 2
    /\ \A o \in 1..Len(chan.stack) : Len(chan.stack[o].layers) < Len(chan.before[o].layers)
    /\ \E o \in 1..Len(chan.stack) : chan.stack[o].layers[1].style # <<>>

\* the pattern of op matches the labels of the overlay at some position
Matches(ov, op) ==
    \E i \in 0..(Len(ov.layers) - Len(op.pattern)) :
       \A k \in 1..Len(op.pattern) : EndsWith(ov.layers[i + k].label, op.pattern[k])
\* the first position of the operation op in a sequence of operations
FirstPos(ops, op) == CHOOSE i \in 1..Len(ops) : ops[i] = op /\ \A j \in 1..(i - 1) : ops[j] # op

\* C16: when several registered channel operations match the same overlay, an
\* operation that consumes more layers is always applied to the overlay before
\* any operation that consumes fewer layers.
C16_LargestAppliedFirst ==
    (chan.phase = "built" /\ chan.log # <<>>) =>
        \A o \in 1..Len(chan.before) :
           \A i, j \in 1..Len(chan.channels) :
              (/\ Matches(chan.before[o], chan.channels[i])
               /\ Matches(chan.before[o], chan.channels[j])
               /\ chan.channels[i].size > chan.channels[j].size)
              => FirstPos(chan.log[o], chan.channels[i]) < FirstPos(chan.log[o], chan.channels[j])

----------------------------------------------------------------------------
(* AnnotationPlot.  An annotation holds specs, each with a mode and an       *)
(* interval: None, or a dictionary from a dimension label to a pair of       *)
(* optional bounds.  A handle is [id, spec]: the identity of the plotting-  *)
(* library object and the index of the spec it draws.                        *)

AnnFrames == 2     \* an annotation stack has 1..AnnFrames entries, keyed 1..AnnFrames
IntervalMax == 1   \* interval bounds range over 0..IntervalMax
MaxHandles == 4    \* update_frame is called while fewer than MaxHandles handles were created

\* key_dict.get(key, default) <= start and key_dict.get(key, default) > end,
\* the default being -inf in the first and +inf in the second
AtOrBelowStart(key_dict, k, start) == IF k \in DOMAIN key_dict THEN key_dict[k] <= start ELSE TRUE
AboveEnd(key_dict, k, end) == IF k \in DOMAIN key_dict THEN key_dict[k] > end ELSE TRUE

\* AnnotationPlot._active_interval(key, interval) on a stack of the given
\* dimension labels; key is the tuple of the entry
AnnotationPlot_active_interval(dim_labels, key, interval) ==
    IF interval = None \/ dim_labels = <<"Default">> THEN TRUE
    ELSE LET key_dict == [l \in {dim_labels[i] : i \in 1..Len(dim_labels)} |->
                             key[CHOOSE i \in 1..Len(dim_labels) : dim_labels[i] = l]]
         IN  ~ \E k \in DOMAIN interval :
                  \/ interval[k][1] # None /\ AtOrBelowStart(key_dict, k, interval[k][1][1])
                  \/ interval[k][2] # None /\ AboveEnd(key_dict, k, interval[k][2][1])

\* AnnotationPlot._warn_invalid_intervals(stack): the interval keys that are
\* no dimension label; a warning is printed when there is one
AnnotationPlot_mismatch_set(dim_labels, stk) ==
    UNION {IF stk[f].data[i].interval = None \/ dim_labels = <<"Default">> THEN {}
           ELSE (DOMAIN stk[f].data[i].interval) \ {dim_labels[d] : d \in 1..Len(dim_labels)} :
              f \in 1..Len(stk), i \in 1..2}

\* AnnotationPlot._draw_annotations(annotation, axis, key): a new handle for
\* every spec whose interval is active, numbered from next on
RECURSIVE DrawAnnotations(_, _, _, _, _, _)
DrawAnnotations(dim_labels, data, key, i, next, handles) ==
    IF i > Len(data) THEN [handles |-> handles, next |-> next]
    ELSE IF ~AnnotationPlot_active_interval(dim_labels, key, data[i].interval)
    THEN DrawAnnotations(dim_labels, data, key, i + 1, next, handles)
    ELSE DrawAnnotations(dim_labels, data, key, i + 1, next + 1,
                         Append(handles, [id |-> next, spec |-> i]))

\* AnnotationPlot.__init__(annotation): the stack of _check_stack and the
\* warning of _warn_invalid_intervals
AnnotationPlot_init(dim_labels, stk) ==
    [IdleAnnot EXCEPT !.phase = "built", !.dim_labels = dim_labels, !.stack = stk,
                      !.warned = AnnotationPlot_mismatch_set(dim_labels, stk) # {}]

\* AnnotationPlot.__call__(axis)
AnnotationPlot_call(p, axis) ==
    IF axis = None THEN [p EXCEPT !.err = "Exception"]
    ELSE LET top == p.stack[Len(p.stack)]
             d == DrawAnnotations(p.dim_labels, top.data, top.key, 1, p.next, <<>>)
         IN  [p EXCEPT !.phase = "drawn", !.axis = axis, !.handles = d.handles,
                       !.initial = d.handles, !.removed = {}, !.next = d.next,
                       !.frame = Len(p.stack) - 1, !.err = ""]

\* AnnotationPlot.update_frame(n)
AnnotationPlot_update_frame(p, n) ==
    LET m == IF n < Len(p.stack) THEN n ELSE Len(p.stack) - 1
        annotation == p.stack[m + 1]
        d == DrawAnnotations(p.dim_labels, annotation.data, annotation.key, 1, p.next, <<>>)
    IN  [p EXCEPT !.phase = "updated", !.frame = m,
                  !.removed = @ \cup {p.handles[i].id : i \in 1..Len(p.handles)},
                  !.handles = d.handles, !.next = d.next]

----------------------------------------------------------------------------
(* SpecAnnot: an AnnotationPlot is built on a stack, drawn and set to frames *)

OptBounds == {None} \cup {Some(v) : v \in 0..IntervalMax}
Ranges == OptBounds \X OptBounds
\* the intervals: None, or bounds for the dimension Time, for a key Bogus that
\* is no dimension, or for both
Intervals ==
    {None} \cup {[k \in {"Time"} |-> r] : r \in Ranges}
           \cup {[k \in {"Bogus"} |-> r] : r \in Ranges}
           \cup {[k \in {"Time", "Bogus"} |-> IF k = "Time" THEN r ELSE q] : r \in Ranges, q \in Ranges}
AnnSpec(mode, interval) == [mode |-> mode, interval |-> interval]
\* the annotation of every entry: a vline with the interval, and an hline
\* that is always shown
AnnotationStack(len, interval) ==
    [f \in 1..len |-> [key |-> <<f>>, data |-> <<AnnSpec("vline", interval), AnnSpec("hline", None)>>]]

AnnotOthers == <<core, rgba, grid, chan, late>>
AnnotInit == SliceIdle /\ OverlayIdle /\ StackIdle /\ HcsIdle /\ PlotIdle /\ ExtIdle

\* AnnotationPlot(stack) for a stack over the dimension Time, and
\* AnnotationPlot(annotation), whose stack has the dimension Default
NewAnnotationPlot(dim_labels, len, interval) ==
    /\ annot.phase = "none"
    /\ dim_labels = <<"Default">> => len = 1
    /\ annot' = AnnotationPlot_init(dim_labels, AnnotationStack(len, interval))
    /\ UNCHANGED AnnotOthers

\* plot(axis), the first render
AnnotCall(axis) ==
    /\ annot.phase = "built" /\ annot.err = ""
    /\ annot' = AnnotationPlot_call(annot, axis)
    /\ UNCHANGED AnnotOthers

\* plot.update_frame(n)
AnnotUpdateFrame(n) ==
    /\ annot.phase \in {"drawn", "updated"}
    /\ annot.next <= MaxHandles
    /\ annot' = AnnotationPlot_update_frame(annot, n)
    /\ UNCHANGED AnnotOthers

AnnotNext ==
    \/ \E dl \in {<<"Time">>, <<"Default">>}, len \in 1..AnnFrames, iv \in Intervals :
          NewAnnotationPlot(dl, len, iv)
    \/ \E axis \in {None, Some(1)} : AnnotCall(axis)
    \/ \E n \in 0..AnnFrames : AnnotUpdateFrame(n)

SpecAnnot == AnnotInit /\ [][AnnotNext]_vars

\* C17: update_frame keeps the set and identity of the handles created by the
\* initial render: it only modifies them in place and never removes a handle
\* or creates a new one.
C17_UpdateKeepsHandles ==
    annot.phase = "updated" =>
        /\ annot.removed = {}
        /\ {annot.handles[i].id : i \in 1..Len(annot.handles)}
              = {annot.initial[i].id : i \in 1..Len(annot.initial)}

\* the interval without the keys that are no dimension label
KnownPart(dim_labels, interval) ==
    IF interval = None THEN None
    ELSE [k \in (DOMAIN interval) \cap {dim_labels[d] : d \in 1..Len(dim_labels)} |-> interval[k]]
\* the specs the handles of the renderer draw
ShownSpecs == {annot.handles[i].spec : i \in 1..Len(annot.handles)}

\* C20: an interval key that is no dimension label of the stack causes only a
\* printed warning and is ignored: the annotation is shown or hidden for a
\* frame exactly as it would be if the unknown key were absent from the
\* interval.
C20_UnknownIntervalKeyIgnored ==
    /\ annot.phase # "none" =>
          (annot.warned <=> AnnotationPlot_mismatch_set(annot.dim_labels, annot.stack) # {})
    /\ annot.phase \in {"drawn", "updated"} =>
          LET entry == annot.stack[annot.frame + 1]
          IN  \A i \in 1..Len(entry.data) :
                 i \in ShownSpecs <=>
                    AnnotationPlot_active_interval(annot.dim_labels, entry.key,
                                                   KnownPart(annot.dim_labels, entry.data[i].interval))

----------------------------------------------------------------------------
(* The children of an overlay renderer, and the figures of the renderers *)

\* the overlay renderer has been drawn exactly once: it has as many children
\* as its overlays have layers
DrawnOnce(p) ==
    /\ p.kind = "SheetPlot" /\ p.drawn /\ p.stack # <<>>
    /\ Len(p.plots) = Len(p.stack[Len(p.stack)].layers)

C19_SurfaceOwnership ==
    plotRes.op = "call" =>
        /\ plotRes.axis # None =>
              /\ plot.ax = plotRes.axis
              /\ plotRes.ret = plotRes.axis
              /\ figs = plotRes.before
        /\ plotRes.axis = None =>
              LET f == plotRes.before.created + 1
              IN  /\ figs.created = f
                  /\ plot.fig = Some(f)
                  /\ figs.closed = plotRes.before.closed \cup {f}
                  /\ plotRes.ret = Some(Figure(f))

----------------------------------------------------------------------------
(* PatternCoordinator: a set of pattern generators per label, each modified *)
(* by the feature coordinators that were selected at construction.          *)

\* the default of PatternCoordinator.feature_coordinators: the coordinator
\* classes of each feature
feature_coordinators ==
    [f \in {"xy", "or"} |->
        IF f = "xy" THEN <<"XCoordinator", "YCoordinator">> ELSE <<"OrientationCoordinator">>]

\* the constant in the seed of each coordinator's random stream
SeedOffset(fn) ==
    CASE fn = "XCoordinator" -> 12
      [] fn = "YCoordinator" -> 35
      [] fn = "OrientationCoordinator" -> 21

\* fn(pattern, pattern_label, pattern_number, master_seed): the pattern keeps,
\* in order, the random streams that modified it
FeatureCoordinator_call(fn, pattern, pattern_label, pattern_number, master_seed) ==
    Append(pattern, [fn |-> fn, pattern_label |-> pattern_label,
                     pattern_number |-> pattern_number, master_seed |-> master_seed,
                     seed |-> master_seed + SeedOffset(fn) + pattern_number])

\* the loop of __init__ over feature_coordinators.items(), given as the
\* features in the order the dictionary yields them
RECURSIVE ToApplyLoop(_, _, _)
ToApplyLoop_ignoring_inherent(items, features_to_vary, inherent_features) ==
    IF items = <<>> THEN <<>>
    ELSE (IF Head(items) \in features_to_vary
          THEN feature_coordinators[Head(items)] ELSE <<>>)
         \o ToApplyLoop(Tail(items), features_to_vary, {})
ToApplyLoop(items, features_to_vary, inherent_features) ==
    IF items = <<>> THEN <<>>
    ELSE (IF Head(items) \in features_to_vary /\ Head(items) \notin inherent_features
          THEN feature_coordinators[Head(items)] ELSE <<>>)
         \o ToApplyLoop(Tail(items), features_to_vary, inherent_features)

\* PatternCoordinator.__init__(inherent_features, features_to_vary=...,
\* pattern_labels=..., patterns_per_label=..., master_seed=...)
PatternCoordinator_init(inherent_features, params, items) ==
    [IdleCoord EXCEPT
        !.phase = "made",
        !.inherent_features = inherent_features,
        !.features_to_vary = params.features_to_vary,
        !.items = items,
        !.pattern_labels = params.pattern_labels,
        !.patterns_per_label = params.patterns_per_label,
        !.master_seed = params.master_seed,
        !.warned = ((inherent_features \ params.features_to_vary)
                        \cap DOMAIN feature_coordinators) # {},
        !.to_apply = ToApplyLoop(items, params.features_to_vary, inherent_features)]

\* the inner loop of __call__: every coordinator to apply, on pattern i
RECURSIVE ApplyCoordinators(_, _, _, _, _)
ApplyCoordinators(fns, pattern, pattern_label, i, master_seed) ==
    IF fns = <<>> THEN pattern
    ELSE ApplyCoordinators(Tail(fns),
                           FeatureCoordinator_call(Head(fns), pattern, pattern_label, i,
                                                   master_seed),
                           pattern_label, i, master_seed)

\* PatternCoordinator.__call__(): the dictionary of the composites, each the
\* sequence of its generators
PatternCoordinator_call(self) ==
    [pattern_label \in {self.pattern_labels[k] : k \in 1..Len(self.pattern_labels)} |->
        [i \in 1..self.patterns_per_label |->
            ApplyCoordinators(self.to_apply, <<>>, pattern_label, i - 1, self.master_seed)]]

FeatureSets == SUBSET {"xy", "or", "sf"}
InherentSets == SUBSET {"xy", "or", "i"}
LabelLists == {<<"Input">>, <<"Left", "Right">>}
ItemOrders == {<<"xy", "or">>, <<"or", "xy">>}

CoordOthers == <<core, rgba, grid, chan, annot, anim, timeline, pgrid, curve, coll>>  \* all but coord
CoordInit == SliceIdle /\ OverlayIdle /\ StackIdle /\ HcsIdle /\ PlotIdle /\ ExtIdle

\* the parameter values a coordinator is constructed with
CoordParams ==
    [features_to_vary : FeatureSets, pattern_labels : LabelLists,
     patterns_per_label : 0..MaxPatterns, master_seed : 0..MaxSeed]

\* PatternCoordinator(inherent_features, **params)
NewPatternCoordinator(inherent_features, params, items) ==
    /\ coord.phase = "none"
    /\ coord' = PatternCoordinator_init(inherent_features, params, items)
    /\ UNCHANGED CoordOthers

\* coordinator()
CoordCall ==
    /\ coord.phase = "made"
    /\ coord' = [coord EXCEPT !.phase = "called", !.out = PatternCoordinator_call(coord)]
    /\ UNCHANGED CoordOthers

CoordNext ==
    \/ \E inh \in InherentSets, params \in CoordParams, items \in ItemOrders :
          NewPatternCoordinator(inh, params, items)
    \/ CoordCall

SpecCoord == CoordInit /\ [][CoordNext]_vars

\* the elements of a sequence
Range(q) == {q[k] : k \in 1..Len(q)}

\* C21: PatternCoordinator applies the coordinator(s) of a feature if and only
\* if the feature is listed in features_to_vary and is not an inherent
\* feature; it warns, and continues without applying that coordinator, when an
\* inherent feature that has a coordinator is not in features_to_vary.
\* Calling the coordinator returns one composite per pattern label, each built
\* from patterns_per_label patterns to which every selected coordinator was
\* applied once with the pattern's number and the master seed.
C21_SelectedCoordinatorsApplied ==
    coord.phase # "none" =>
        /\ \A f \in DOMAIN feature_coordinators :
              \A c \in Range(feature_coordinators[f]) :
                 c \in Range(coord.to_apply)
                    <=> (f \in coord.features_to_vary /\ f \notin coord.inherent_features)
        /\ coord.warned <=>
              \E f \in coord.inherent_features :
                 f \in DOMAIN feature_coordinators /\ f \notin coord.features_to_vary
        /\ coord.phase = "called" =>
              /\ DOMAIN coord.out = Range(coord.pattern_labels)
              /\ \A l \in DOMAIN coord.out :
                    /\ Len(coord.out[l]) = coord.patterns_per_label
                    /\ \A i \in 1..Len(coord.out[l]) :
                          LET applied == coord.out[l][i]
                          IN  /\ Len(applied) = Len(coord.to_apply)
                              /\ \A c \in Range(coord.to_apply) :
                                    /\ Cardinality({k \in 1..Len(applied) :
                                                       applied[k].fn = c}) = 1
                                    /\ \A k \in 1..Len(applied) :
                                          applied[k].fn = c =>
                                             /\ applied[k].pattern_label = l
                                             /\ applied[k].pattern_number = i - 1
                                             /\ applied[k].master_seed = coord.master_seed

\* a coordinator that warned about an inherent feature, and still applies
\* another feature's coordinators, was called for two labels of two patterns
C21_Witness ==
    /\ coord.phase = "called" /\ coord.warned
    /\ coord.to_apply = <<"XCoordinator", "YCoordinator">>
    /\ "or" \in coord.inherent_features
    /\ Len(coord.pattern_labels) = 2 /\ coord.patterns_per_label = 2

\* the seeds used for the pattern numbered n of the label l
SeedsOf(l, n) == {<<l, n, e.fn, e.seed>> : e \in Range(coord.out[l][n + 1])}
AllSeeds == UNION {SeedsOf(l, n) : l \in DOMAIN coord.out, n \in 0..(coord.patterns_per_label - 1)}

\* C24: for a fixed master_seed, each numbered pattern on each pattern label
\* gets a different random seed from the X, Y and orientation coordinators (two
\* different (pattern_label, pattern_number, coordinator) combinations never
\* share a seed), and every seed is master_seed plus a fixed offset so that
\* changing master_seed changes all seeds.
C24_SeedsDistinct ==
    coord.phase = "called" =>
        /\ \A a \in AllSeeds, b \in AllSeeds :
              (<<a[1], a[2], a[3]>> # <<b[1], b[2], b[3]>>) => a[4] # b[4]
        /\ \A a \in AllSeeds : a[4] = coord.master_seed + SeedOffset(a[3]) + a[2]

----------------------------------------------------------------------------
(* Animation: a SheetStack over time whose keys are multiples of a duration *)

\* a frame: a layer with an identity
Frame(type, bounds, id) == [type |-> type, bounds |-> bounds, id |-> id]

\* Animation._item_check(dim_vals, data): [err, self]
Animation_item_check(s, dim_vals, data) ==
    IF dim_vals % s.duration # 0 THEN [err |-> "ValueError", self |-> s]
    ELSE SheetStack_item_check(s, dim_vals, data)

\* anim[key] = data: the item check, then the insertion
Animation_setitem(s, key, data) ==
    LET r == Animation_item_check(s, key, data)
    IN  IF r.err # "" THEN r
        ELSE [err |-> "", self |-> NdMapping_add_item(r.self, key, data)]

\* max(self.keys() + [0])
LastKey(s) == SeqMax(<<0>> \o [i \in 1..Len(s.items) |-> s.items[i].key])

\* the loop of __or__ over enumerate(other), from the n-th view on: the first
\* error ends it
RECURSIVE OrLoop(_, _, _, _, _)
OrLoop(a, views, n, last_key, duration) ==
    IF n > Len(views) THEN [err |-> "", self |-> a]
    ELSE LET r == Animation_setitem(a, IF last_key = 0 THEN 0 ELSE last_key + n * duration,
                                    views[n])
         IN  IF r.err # "" THEN r ELSE OrLoop(r.self, views, n + 1, last_key, duration)

\* Animation.__or__(other): [err, self] with self the new animation; other is
\* a layer, or an animation
Animation_or(s, other) ==
    LET a == s
        last_key == LastKey(s)
    IN  IF other.kind = "Animation"
        THEN IF other.anim.duration # s.duration THEN [err |-> "Exception", self |-> a]
             ELSE OrLoop(a, [i \in 1..Len(other.anim.items) |-> other.anim.items[i].val], 1,
                         last_key, s.duration)
        ELSE Animation_setitem(a, IF s.items = <<>> THEN 0 ELSE last_key + s.duration,
                               other.layer)

\* the frames offered to an animation, and an object with bounds that is no
\* layer
AnimFrames(id) == {Frame(ty, bb, id) : ty \in LayerTypes \cup {"NotALayer"}, bb \in LayerBounds}
\* an animation of n frames of one type and bounds at the keys 0, d, 2d, ...
AnimationOf(d, n, ty, bb) ==
    [duration |-> d, bounds |-> IF n = 0 THEN None ELSE Some(bb),
     items |-> [i \in 1..n |-> [key |-> (i - 1) * d, val |-> Frame(ty, bb, 20 + i)]]]
\* what stands to the right of |
OrOperands ==
    {[kind |-> "layer", layer |-> Frame(ty, bb, 30), anim |-> IdleAnimation] :
        ty \in LayerTypes, bb \in LayerBounds}
    \cup {[kind |-> "Animation", layer |-> Frame("", BoundsA, 0),
           anim |-> AnimationOf(d, n, "SheetView", BoundsA)] :
             d \in 1..MaxDuration, n \in 0..MaxAnim}

AnimOthers == <<core, rgba, grid, chan, annot, coord, timeline, pgrid, curve, coll>>  \* all but anim
AnimInit == SliceIdle /\ OverlayIdle /\ StackIdle /\ HcsIdle /\ PlotIdle /\ ExtIdle

\* Animation(duration=duration)
NewAnimation(duration) ==
    /\ anim.phase = "none"
    /\ anim' = [IdleAnim EXCEPT !.phase = "made", !.op = "construct",
                                !.self = [IdleAnimation EXCEPT !.duration = duration]]
    /\ UNCHANGED AnimOthers

\* anim[key] = data
AnimInsert(key, data) ==
    LET r == Animation_setitem(anim.self, key, data)
    IN  /\ anim.phase = "made"
        /\ Len(anim.self.items) < MaxAnim
        /\ anim' = [anim EXCEPT !.op = "insert", !.err = r.err, !.key = key,
                                !.before = anim.self, !.self = r.self]
        /\ UNCHANGED AnimOthers

\* anim | other
AnimOr(other) ==
    LET r == Animation_or(anim.self, other)
    IN  /\ anim.phase = "made"
        /\ anim' = [anim EXCEPT !.phase = "or", !.op = "or", !.err = r.err,
                                !.before = anim.self, !.other = Some(other), !.out = r.self]
        /\ UNCHANGED AnimOthers

AnimNext ==
    \/ \E d \in 1..MaxDuration : NewAnimation(d)
    \/ \E key \in 0..(MaxKey * MaxDuration), data \in AnimFrames(10) :
          AnimInsert(key, [data EXCEPT !.id = 10 + key])
    \/ \E other \in OrOperands : AnimOr(other)

SpecAnim == AnimInit /\ [][AnimNext]_vars

\* the frames that A | B appends, in order
Appended(other) ==
    IF other.kind = "Animation"
    THEN [i \in 1..Len(other.anim.items) |-> other.anim.items[i].val]
    ELSE <<other.layer>>
\* B can be appended to A: same duration, and frames of A's type and bounds
Appendable(a, other) ==
    /\ other.kind = "Animation" => other.anim.duration = a.duration
    /\ \A i \in 1..Len(Appended(other)) :
          /\ a.bounds # None => Appended(other)[i].bounds = a.bounds[1]
          /\ a.items # <<>> => Appended(other)[i].type = a.items[1].val.type

\* C22: for an Animation A with duration d, A | B returns a new animation and
\* leaves A unchanged; the result contains every frame of A followed by the
\* appended frame(s) of B at new keys that continue A's timebase in steps of d
\* (starting at key 0 when A is empty), so its frame count is len(A) plus the
\* number of frames appended (1 for a single layer, len(B) for an Animation B
\* with the same duration).
C22_OrAppendsFrames ==
    (anim.phase = "or" /\ Appendable(anim.before, anim.other[1])) =>
        LET a == anim.before
            new == Appended(anim.other[1])
            first == IF a.items = <<>> THEN 0 ELSE LastKey(a) + a.duration
        IN  /\ anim.err = ""
            /\ anim.self = a
            /\ Len(anim.out.items) = Len(a.items) + Len(new)
            /\ SubSeq(anim.out.items, 1, Len(a.items)) = a.items
            /\ \A i \in 1..Len(new) :
                  Len(a.items) + i <= Len(anim.out.items) =>
                     anim.out.items[Len(a.items) + i] =
                        [key |-> first + (i - 1) * a.duration, val |-> new[i]]

\* C29: an insertion into a SheetStack or Animation that is rejected with an
\* error (bounds mismatch, element type mismatch, key not a multiple of the
\* duration, or rejection by the base mapping's item check) leaves the stack
\* exactly as it was: same entries, same keys and same bounds attribute, also
\* when the stack was empty and had no bounds yet.
C29_RejectedInsertionLeavesStack ==
    (anim.op = "insert" /\ anim.err # "") => anim.self = anim.before

----------------------------------------------------------------------------
(* Timeline as a context manager.  pushes and pops list, in order, the      *)
(* objects that received state_push and state_pop.                          *)

\* Timeline.__init__(time): the attribute _objs is not assigned
Timeline_init == [IdleTimeline EXCEPT !.made = TRUE]

\* Timeline.__call__(objs): the list of the objects, or of the one object that
\* cannot be iterated
Timeline_call(self, objs) == [self EXCEPT !.has_objs = TRUE, !.objs = Some(objs)]

\* Timeline.__enter__(): [err, self]; reading an attribute that was never
\* assigned raises AttributeError
Timeline_enter(self) ==
    IF ~self.has_objs THEN [err |-> "AttributeError", self |-> self]
    ELSE IF self.objs = None THEN [err |-> "Exception", self |-> self]
    ELSE [err |-> "", self |-> [self EXCEPT !.pushes = @ \o self.objs[1],
                                            !.time_enter = @ + 1]]

\* Timeline.__exit__(exc): [err, self]; iterating None raises TypeError
Timeline_exit(self) ==
    IF self.objs = None THEN [err |-> "TypeError", self |-> self]
    ELSE [err |-> "", self |-> [self EXCEPT !.pops = @ \o self.objs[1], !.objs = None,
                                            !.time_exit = @ + 1]]

TimelineObjects == {"a", "b"}
ObjectLists == UNION {[1..n -> TimelineObjects] : n \in 0..MaxObjs}

TimelineOthers == <<core, rgba, grid, chan, annot, coord, anim, pgrid, curve, coll>>  \* all but timeline
TimelineInit == SliceIdle /\ OverlayIdle /\ StackIdle /\ HcsIdle /\ PlotIdle /\ ExtIdle

\* the state of the last operation: what was there before it
Snapshot(self, op, supplied) ==
    [self EXCEPT !.op = op, !.supplied = supplied, !.pushes_before = self.pushes,
                 !.pops_before = self.pops, !.time_before = self.time_enter + self.time_exit]

\* Timeline()
NewTimeline ==
    /\ ~timeline.made
    /\ timeline' = Timeline_init
    /\ UNCHANGED TimelineOthers

\* timeline(objs)
TimelineCall(objs) ==
    /\ timeline.made
    /\ timeline' = [Timeline_call(Snapshot(timeline, "call", objs), objs) EXCEPT !.err = ""]
    /\ UNCHANGED TimelineOthers

\* the with statement enters the context; the block is open if that succeeds
TimelineEnter ==
    LET supplied == IF timeline.objs = None THEN <<>> ELSE timeline.objs[1]
        r == Timeline_enter(Snapshot(timeline, "enter", supplied))
    IN  /\ timeline.made
        /\ timeline.uses < MaxUses
        /\ Len(timeline.blocks) < MaxNest
        /\ timeline' = [r.self EXCEPT !.err = r.err, !.uses = @ + 1,
                                      !.blocks = IF r.err = "" THEN Append(@, supplied) ELSE @]
        /\ UNCHANGED TimelineOthers

\* the innermost open block ends, normally or by raising
TimelineExit(raised) ==
    LET n == Len(timeline.blocks)
        r == Timeline_exit(Snapshot(timeline, "exit", timeline.blocks[n]))
    IN  /\ n > 0
        /\ timeline' = [r.self EXCEPT !.err = r.err, !.blocks = SubSeq(@, 1, n - 1)]
        /\ UNCHANGED TimelineOthers

TimelineNext ==
    \/ NewTimeline
    \/ \E objs \in ObjectLists : TimelineCall(objs)
    \/ TimelineEnter
    \/ \E raised \in BOOLEAN : TimelineExit(raised)

SpecTimeline == TimelineInit /\ [][TimelineNext]_vars

\* C23: in every use of a Timeline as a context manager, each object supplied
\* through the call receives exactly one state_push on entry and exactly one
\* state_pop on exit of the block (also when the block raises), the time
\* object's enter/exit are invoked around the block, and after exit the
\* Timeline holds no pending objects; entering the context without objects
\* having been supplied raises the 'Call needs to be supplied' exception and
\* pushes nothing.
C23_PushOnEnterPopOnExit ==
    /\ (timeline.op = "enter" /\ timeline.objs # None) =>
          /\ timeline.err = ""
          /\ timeline.pushes = timeline.pushes_before \o timeline.supplied
          /\ timeline.pops = timeline.pops_before
          /\ timeline.time_enter + timeline.time_exit = timeline.time_before + 1
    /\ (timeline.op = "enter" /\ timeline.objs = None) =>
          /\ timeline.err = "Exception"
          /\ timeline.pushes = timeline.pushes_before
    /\ timeline.op = "exit" =>
          /\ timeline.err = ""
          /\ timeline.pops = timeline.pops_before \o timeline.supplied
          /\ timeline.pushes = timeline.pushes_before
          /\ timeline.time_enter + timeline.time_exit = timeline.time_before + 1
          /\ timeline.objs = None

----------------------------------------------------------------------------
(* ProjectionGrid: an NdMapping over (X, Y) whose keys are snapped to the   *)
(* centres of the cells of a grid laid over its bounds.                     *)

\* p < q for fractions of positive denominator
FracLess(p, q) == p[1] * q[2] < q[1] * p[2]

\* BoundingBox.contains(x, y): the edges are inside
BoundingBox_contains(bounds, x, y) ==
    bounds[1] <= x /\ x <= bounds[3] /\ bounds[2] <= y /\ y <= bounds[4]

\* SheetCoordinateSystem.matrixidx2sheet(row, col): the sheet coordinates
\* <<x, y>> of the centre of the cell, each an exact fraction
matrixidx2sheet(scs, row, col) ==
    <<Frac(2 * scs.xdensity[1] * scs.bounds[1] + (2 * col + 1) * scs.xdensity[2],
           2 * scs.xdensity[1]),
      Frac(2 * scs.ydensity[1] * scs.bounds[4] - (2 * row + 1) * scs.ydensity[2],
           2 * scs.ydensity[1])>>

\* SheetCoordinateSystem.closest_cell_center(x, y)
closest_cell_center(scs, x, y) ==
    LET idx == sheet2matrixidx(scs, x, y)
    IN  matrixidx2sheet(scs, idx[1], idx[2])

\* ProjectionGrid._transform_value(val, dim) for a value that is not None
ProjectionGrid_transform_value(scs, val, dim) ==
    IF dim = 1 THEN closest_cell_center(scs, 0, val)[2]
    ELSE closest_cell_center(scs, val, 0)[1]

\* ProjectionGrid._transform_indices(coords) for coordinates that are no slices
ProjectionGrid_transform_indices(scs, coords) ==
    <<ProjectionGrid_transform_value(scs, coords[1], 0),
      ProjectionGrid_transform_value(scs, coords[2], 1)>>

\* the order of the keys (X, Y)
KeyLess(j, k) == FracLess(j[1], k[1]) \/ (FracEq(j[1], k[1]) /\ FracLess(j[2], k[2]))
KeyEq(j, k) == FracEq(j[1], k[1]) /\ FracEq(j[2], k[2])

\* NdMapping._add_item(coords, data, sort=True) with keys of two dimensions
NdMapping_add_item2(items, key, data) ==
    SelectSeq(items, LAMBDA it : KeyLess(it.key, key))
    \o <<[key |-> key, val |-> data]>>
    \o SelectSeq(items, LAMBDA it : KeyLess(key, it.key))

\* ProjectionGrid.__init__(bounds, shape)
ProjectionGrid_init(bounds, shape) ==
    [IdlePgrid EXCEPT !.made = TRUE, !.op = "construct", !.bounds = bounds, !.shape = shape,
                      !.xdensity = Frac(shape[1], bounds[3] - bounds[1]),
                      !.ydensity = Frac(shape[2], bounds[4] - bounds[2])]

\* ProjectionGrid._add_item(coords, data): the warning is followed by the
\* item check, the snapping of the key and the insertion
ProjectionGrid_add_item(self, coords, data) ==
    [self EXCEPT !.op = "add", !.coords = coords, !.before = self.items,
                 !.warned = ~BoundingBox_contains(self.bounds, coords[1], coords[2]),
                 !.items = NdMapping_add_item2(self.items,
                                               ProjectionGrid_transform_indices(self, coords),
                                               data)]

GridBounds == <<0, 0, MaxCoord, MaxCoord>>
ProjectionShapes == {<<1, 1>>, <<2, 2>>, <<2, 1>>}
ProjectionCoords == (-1)..(MaxCoord + 1)

PgridOthers == <<core, rgba, grid, chan, annot, coord, anim, timeline, curve, coll>>  \* all but pgrid
PgridInit == SliceIdle /\ OverlayIdle /\ StackIdle /\ HcsIdle /\ PlotIdle /\ ExtIdle

\* ProjectionGrid(bounds, shape)
NewProjectionGrid(shape) ==
    /\ ~pgrid.made
    /\ pgrid' = ProjectionGrid_init(GridBounds, shape)
    /\ UNCHANGED PgridOthers

\* grid[x, y] = data
PgridAdd(x, y, data) ==
    /\ pgrid.made
    /\ Len(pgrid.items) < MaxItems
    /\ pgrid' = ProjectionGrid_add_item(pgrid, <<x, y>>, data)
    /\ UNCHANGED PgridOthers

PgridNext ==
    \/ \E shape \in ProjectionShapes : NewProjectionGrid(shape)
    \/ \E x \in ProjectionCoords, y \in ProjectionCoords : PgridAdd(x, y, Len(pgrid.items) + 1)

SpecPgrid == PgridInit /\ [][PgridNext]_vars

\* the point (x, y) lies in the cell (row, col) of the grid, borders included
InCell(scs, row, col, x, y) ==
    /\ row \in 0..(scs.shape[2] - 1) /\ col \in 0..(scs.shape[1] - 1)
    /\ LET c == matrixidx2sheet(scs, row, col)
       IN  /\ 2 * Max(c[1][1] - x * c[1][2], x * c[1][2] - c[1][1]) * scs.xdensity[1]
                 <= c[1][2] * scs.xdensity[2]
           /\ 2 * Max(c[2][1] - y * c[2][2], y * c[2][2] - c[2][1]) * scs.ydensity[1]
                 <= c[2][2] * scs.ydensity[2]

\* C25: adding an item to a ProjectionGrid at coordinates outside the grid's
\* bounds issues the warning 'data could not be added' and does not add the
\* item: the grid's entries are the same after the call as before; every key
\* that is stored is the centre of the grid cell closest to the requested
\* coordinates.
C25_OutsideItemNotAdded ==
    pgrid.op = "add" =>
        /\ ~BoundingBox_contains(pgrid.bounds, pgrid.coords[1], pgrid.coords[2]) =>
              /\ pgrid.warned
              /\ pgrid.items = pgrid.before
        /\ BoundingBox_contains(pgrid.bounds, pgrid.coords[1], pgrid.coords[2]) =>
              /\ ~pgrid.warned
              /\ \E i \in 1..Len(pgrid.items), row \in 0..MaxCoord, col \in 0..MaxCoord :
                    /\ InCell(pgrid, row, col, pgrid.coords[1], pgrid.coords[2])
                    /\ KeyEq(pgrid.items[i].key, matrixidx2sheet(pgrid, row, col))

----------------------------------------------------------------------------
(* DataCurvePlot.  A frame of its stack holds one line: the sequence of its *)
(* points <<x, y>>.                                                         *)

\* DataCurvePlot._rotate(seq, n)
DataCurvePlot_rotate(q, n) ==
    LET k == n % Len(q)
    IN  SubSeq(q, k + 1, Len(q)) \o SubSeq(q, 1, k)

\* np.argmax(y_values), counted from 0: the first position of the maximum
ArgMax(ys) == (CHOOSE i \in 1..Len(ys) :
                  /\ \A j \in 1..Len(ys) : ys[j] <= ys[i]
                  /\ \A j \in 1..(i - 1) : ys[j] < ys[i]) - 1

\* DataCurvePlot._find_peak(lines): the peak of the line, 0 if it is not above 0
DataCurvePlot_find_peak(line) ==
    LET ys == [i \in 1..Len(line) |-> line[i][2]]
    IN  IF SeqMax(ys) > 0 THEN ArgMax(ys) ELSE 0

\* DataCurvePlot._cyclic_curves(lines): the line that replaces the line in the
\* data of the view
DataCurvePlot_cyclic_curves(center, cyclic_range, peak_argmax, line) ==
    LET xs == [i \in 1..Len(line) |-> line[i][1]]
        ys == [i \in 1..Len(line) |-> line[i][2]]
        y_rot == IF center THEN DataCurvePlot_rotate(ys, peak_argmax + Len(xs) \div 2) ELSE ys
        x_values == Append(xs, xs[1] + cyclic_range)
        y_values == Append(y_rot, y_rot[1])
    IN  [i \in 1..Len(x_values) |-> <<x_values[i], y_values[i]>>]

\* DataCurvePlot.__init__(curves)
DataCurvePlot_init(stk, cyclic_range, center) ==
    [IdleCurve EXCEPT !.made = TRUE, !.op = "construct", !.stack = stk,
                      !.cyclic_range = cyclic_range, !.center = center]

\* what the last call was and left in the handle
Earlier(self) == [op |-> self.op, n |-> self.n, line_segments |-> self.line_segments]

\* DataCurvePlot.__call__(axis): the top of the stack is drawn
DataCurvePlot_call(self) ==
    LET top == Len(self.stack)
        lines == self.stack[top]
        peak == IF self.cyclic_range # None /\ self.center
                THEN DataCurvePlot_find_peak(lines) ELSE self.peak_argmax
        data == IF self.cyclic_range # None
                THEN DataCurvePlot_cyclic_curves(self.center, self.cyclic_range[1], peak, lines)
                ELSE lines
    IN  [self EXCEPT !.op = "call", !.n = 0, !.prev = Earlier(self), !.before = self.stack,
                     !.drawn = TRUE, !.peak_argmax = peak, !.stack[top] = data,
                     !.line_segments = data]

\* DataCurvePlot.update_frame(n)
DataCurvePlot_update_frame(self, n) ==
    LET m == IF n < Len(self.stack) THEN n ELSE Len(self.stack) - 1
        lines == self.stack[m + 1]
        data == IF self.cyclic_range # None
                THEN DataCurvePlot_cyclic_curves(self.center, self.cyclic_range[1],
                                                 self.peak_argmax, lines)
                ELSE lines
    IN  [self EXCEPT !.op = "update_frame", !.n = n, !.prev = Earlier(self),
                     !.before = self.stack, !.stack[m + 1] = data, !.line_segments = data]

\* the curves: points at x = 0, 1, ... with y in 0..1
Curves == UNION {[1..k -> 0..1] : k \in 1..MaxPoints}
CurveLine(ys) == [i \in 1..Len(ys) |-> <<i - 1, ys[i]>>]
CurveStacks == UNION {[1..f -> {CurveLine(ys) : ys \in Curves}] : f \in 1..MaxCurveFrames}
Longest(stk) == SeqMax([f \in 1..Len(stk) |-> Len(stk[f])])

CurveOthers == <<core, rgba, grid, chan, annot, coord, anim, timeline, pgrid, coll>>  \* all but curve
CurveInit == SliceIdle /\ OverlayIdle /\ StackIdle /\ HcsIdle /\ PlotIdle /\ ExtIdle

\* DataCurvePlot(curves)
NewDataCurvePlot(stk, cyclic_range, center) ==
    /\ ~curve.made
    /\ curve' = DataCurvePlot_init(stk, cyclic_range, center)
    /\ UNCHANGED CurveOthers

\* plot()
CurveCall ==
    /\ curve.made
    /\ Longest(curve.stack) <= MaxLine
    /\ curve' = DataCurvePlot_call(curve)
    /\ UNCHANGED CurveOthers

\* plot.update_frame(n)
CurveUpdateFrame(n) ==
    /\ curve.drawn
    /\ Longest(curve.stack) <= MaxLine
    /\ curve' = DataCurvePlot_update_frame(curve, n)
    /\ UNCHANGED CurveOthers

CurveNext ==
    \/ \E stk \in CurveStacks, cr \in {None, Some(MaxPoints)}, center \in BOOLEAN :
          NewDataCurvePlot(stk, cr, center)
    \/ CurveCall
    \/ \E n \in 0..MaxCurveFrames : CurveUpdateFrame(n)

SpecCurve == CurveInit /\ [][CurveNext]_vars

\* C26: rendering never changes the rendered data: the initial draw and every
\* update_frame(n) of any renderer leave the data of every view in the
\* renderer's stack unchanged, so calling update_frame(n) twice in a row
\* leaves the same handle contents as calling it once (including curve
\* renderers whose views have a cyclic range).
C26_RenderingKeepsData ==
    /\ curve.op \in {"call", "update_frame"} => curve.stack = curve.before
    /\ (/\ curve.op = "update_frame" /\ curve.prev.op = "update_frame"
        /\ curve.prev.n = curve.n)
       => curve.line_segments = curve.prev.line_segments

----------------------------------------------------------------------------
(* Repeated renders, and frames by index *)

\* C27: after any number of initial-render calls on the same overlay renderer
\* (direct calls, indexing plot[frame], or anim, each of which renders again),
\* the renderer's child list contains exactly one child renderer per overlay
\* layer, so a following update_frame updates each layer exactly once and only
\* children drawn by the latest render.
C27_OneChildPerLayerAfterRenders ==
    (plot.kind = "SheetPlot" /\ plot.drawn) =>
        /\ Len(plot.plots) = Len(plot.stack[Len(plot.stack)].layers)
        /\ plotRes.op = "update_frame" =>
              plot.calls = [j \in 1..Len(plot.stack[Len(plot.stack)].layers) |-> j - 1]

\* C30: Plot.__getitem__(frame) emits the 'Showing last frame available'
\* warning exactly when the requested frame index is out of range and is
\* therefore clamped by update_frame, i.e. for every frame >= len(plot) and
\* for no frame < len(plot); in both cases it renders and then updates to the
\* (clamped) frame and returns the figure.
C30_WarningWhenClamped ==
    (plotRes.op = "getitem" /\ plot.kind = "SheetViewPlot") =>
        /\ plotRes.warned <=> plotRes.n >= plotRes.given
        /\ plotRes.err = ""
        /\ plot.drawn
        /\ plot.im = plot.stack[Min(plotRes.n, plotRes.given - 1) + 1].id
        /\ plotRes.ret = Some(Figure(plotRes.before.created + 1))

----------------------------------------------------------------------------
(* SheetPlot._collapse on one overlay, for any pattern *)

\* the labels of the layers: a name of their own and a channel suffix
LayerNames == <<"p", "q", "r", "s", "t">>
\* an overlay whose j-th layer has the suffix suffixes[j] and the source j
SuffixOverlay(suffixes) ==
    [type |-> "SheetOverlay", label |-> <<>>,
     layers |-> [j \in 1..Len(suffixes) |->
                    ChannelLayer(<<LayerNames[j], suffixes[j]>>, <<>>, <<j>>)]]
\* pattern.rsplit('*'), each segment stripped
Patterns == UNION {[1..k -> {<<"R">>, <<"G">>}] : k \in 1..MaxPattern}
SuffixLists == UNION {[1..n -> {"R", "G"}] : n \in 0..MaxCollapse}
StyleKey == <<"Key">>

CollOthers == <<core, rgba, grid, chan, annot, coord, anim, timeline, pgrid, curve>>  \* all but coll
CollInit == SliceIdle /\ OverlayIdle /\ StackIdle /\ HcsIdle /\ PlotIdle /\ ExtIdle

\* self._collapse(overlay, pattern, fn, style_key)
Collapse(suffixes, pattern) ==
    LET ov == SuffixOverlay(suffixes)
    IN  /\ coll.op = "none"
        /\ coll' = [op |-> "collapse", layers |-> ov.layers, pattern |-> pattern,
                    out |-> SheetPlot_collapse(ov, pattern, "RGBA", StyleKey).layers]
        /\ UNCHANGED CollOthers

CollNext == \E suffixes \in SuffixLists, pattern \in Patterns : Collapse(suffixes, pattern)

SpecCollapse == CollInit /\ [][CollNext]_vars

\* the positions of the result that hold a collapsed view, and those that hold
\* the layer j unchanged
CollapsedAt == {i \in 1..Len(coll.out) : coll.out[i].style = StyleKey}
KeptAt(j) == {i \in 1..Len(coll.out) : coll.out[i] = coll.layers[j]}
UsedBy(j) == {i \in CollapsedAt : \E k \in 1..Len(coll.out[i].src) : coll.out[i].src[k] = <<j>>}

\* C28: SheetPlot._collapse with a pattern of k segments on an overlay of n
\* layers consumes every original layer at most once: each layer either
\* appears unchanged in the result, in its original relative order, or is an
\* input of exactly one collapsed view; with m matches the resulting overlay
\* has n - m*(k-1) layers, and an overlay with fewer than k layers is left
\* unchanged.
C28_LayersConsumedOnce ==
    coll.op = "collapse" =>
        LET n == Len(coll.layers)
            k == Len(coll.pattern)
            m == Cardinality(CollapsedAt)
        IN  /\ n < k => coll.out = coll.layers
            /\ \A j \in 1..n : Cardinality(KeptAt(j)) + Cardinality(UsedBy(j)) = 1
            /\ \A j1 \in 1..n, j2 \in 1..n :
                  j1 < j2 => \A i1 \in KeptAt(j1), i2 \in KeptAt(j2) : i1 < i2
            /\ Len(coll.out) = n - m * (k - 1)

============================================================================
